---- MODULE Spec2Model ----
(***************************************************************************)
(* Retrieval pipelines of the forsa-smart-chatbot repository.              *)
(*                                                                         *)
(* SpecDepot:  the cascading ThreeLayerRetriever of the depot pipeline     *)
(*             (rule -> BM25 -> dense), its construction, call_pipeline    *)
(*             and run_depot_pipeline.                                     *)
(* SpecConv:   the RetrievalPipeline of the conventions pipeline (entity   *)
(*             detection and hard filter, signature boost, reranking and   *)
(*             aggregation) and run_conventions_pipeline.                  *)
(* SpecOffers: the RetrievalPipeline of the offers pipeline (rule filter,  *)
(*             sparse fusion, dynamic top-N in _build_result).             *)
(* SpecSparse: the BM25 searches (conventions BM25Index, depot              *)
(*             SparseRetriever) over a small inverted index.               *)
(* SpecNorm:   the min-max normalisers of the three fusion stages, applied *)
(*             to small candidate pools.                                   *)
(* SpecRanker: the HybridRanker of the conventions pipeline (BM25 + dense  *)
(*             fusion, numeric boost) and the QueryPipeline of the guide   *)
(*             pipeline (fusion or BM25-only mode, reranking).             *)
(* SpecIntent: the IntentClassifier of the conventions pipeline.           *)
(* SpecEntityFilter: EntityDetector.detect with filter_passages, and       *)
(*             EntityFilter.apply.                                         *)
(* SpecPassages: the PassageGenerator, run twice on one document.          *)
(* SpecBatch:  PassageGenerator.generate_all_passages over a batch.        *)
(* SpecShared: the process-wide state written by overlapping queries.      *)
(* SpecIndex:  BM25Index.build_index and search, rebuilt while searched.   *)
(*                                                                         *)
(* One run exercises one pipeline; the variables of the others keep their  *)
(* initial values.                                                         *)
(*                                                                         *)
(* Text is modelled as a sequence of lower-case words; `pattern in text`   *)
(* (Python substring test) is modelled as "pattern is a contiguous run of  *)
(* words of text".  Scores produced by the external libraries (rank_bm25,  *)
(* sentence-transformers, the LLM) are inputs drawn from small sets.       *)
(***************************************************************************)
EXTENDS Integers, Sequences, FiniteSets, TLC

VARIABLES
    \* ---- depot pipeline (ThreeLayerRetriever) ----
    depot_provider,         \* the embedding provider as found at build time
    depot_docs,             \* self.docs
    depot_query,            \* the query of the current retrieve call
    depot_bm25_scores,            \* self.bm25.get_scores(q_tokens), one per document
    depot_dense_sims,             \* the cosine similarities of the query, one per document
    block_rule_layer,
    block_bm25_layer,
    block_dense_layer,
    bm25_score_threshold,
    dense_score_threshold,
    depot_pc,               \* position of the caller / of retrieve
    depot_consulted,        \* the layers whose search was called, in call order
    depot_result,           \* what retrieve returned: None or the 6-tuple
    depot_output,           \* call_pipeline's output["retrieved_documents"]
    depot_answer,           \* run_depot_pipeline's "answer"
    \* ---- conventions pipeline: HybridRanker ----
    ranker_use_dense,       \* HybridRanker.use_dense
    ranker_documents,       \* HybridRanker.documents (the passages)
    ranker_dense,           \* the dense retriever: "absent", "unbuilt", "built", "disabled"
    ranker_pc,
    ranker_query,           \* intent, prices and speeds of the query searched
    ranker_bm25_raw,        \* raw BM25 score per passage (0: no query term in it)
    ranker_dense_raw,       \* raw cosine similarity per passage
    ranker_results,         \* the list HybridRanker.search returned
    \* ---- guide pipeline: QueryPipeline ----
    guide_enable_reranking, \* QueryPipeline.enable_reranking
    guide_dense_available,  \* QueryPipeline._dense_available
    guide_pc,
    guide_query,            \* the cleaned query, a sequence of words
    guide_top_k,
    guide_bm25_results,     \* what sparse_retrieve returned
    guide_dense_results,    \* what dense_retrieve returned
    guide_results,          \* the list QueryPipeline.search returned
    \* ---- conventions pipeline: RetrievalPipeline ----
    conv_config,            \* PipelineConfig
    conv_passages,          \* self.passages
    conv_query,             \* what the stages derive from the query of search
    conv_dense,             \* hybrid_ranker.dense: "absent", "unbuilt", "built", "disabled"
    conv_cross_encoder,     \* self.cross_encoder: None or the class of the reranker
    conv_pc,
    conv_entity_result,     \* EntityDetectionResult of the query
    conv_retrieved,         \* scored_passages as hybrid_ranker.search returned them
    conv_filtered,          \* scored_passages after the entity hard filter
    conv_result,            \* the SearchResult returned, or None
    conv_answer,            \* run_conventions_pipeline's "answer"
    \* ---- offers pipeline: RetrievalPipeline ----
    offers_pc,
    offers_top_k,           \* the caller's maximum
    offers_candidates,      \* the candidates _build_result received
    offers_result,          \* the dict returned
    offers_rule_raw,        \* the router's score of each document for the query
    offers_bm25_raw,        \* bm25.get_scores of the query
    \* ---- score normalisation of the three fusion stages ----
    norm_pc,                \* position of the normalisation run
    norm_impl,              \* which normaliser was applied
    norm_pool,              \* the raw scores of the candidate pool
    norm_result,            \* the normalised scores, aligned with the pool
    \* ---- BM25 search (conventions BM25Index, depot SparseRetriever) ----
    sparse_pc,              \* position of the BM25 search
    sparse_impl,            \* which index was searched
    sparse_postings,        \* term -> passage -> score contribution (0 if absent)
    sparse_query,           \* the query tokens
    sparse_top_k,           \* top_k of the search
    sparse_returned,        \* the (passage id, score) pairs returned
    \* ---- conventions: intent classifier ----
    intent_pc,              \* position of the intent classification
    intent_use_priority_weights,   \* IntentClassifier.use_priority_weights
    intent_query,           \* the words of the query being classified
    intent_result,          \* the IntentResult returned by classify
    \* ---- conventions: EntityFilter ----
    efilter_pc,             \* position of the entity filter call
    efilter_args,           \* query mentions, passages and flags of the call
    efilter_result,         \* the EntityDetectionResult returned
    efilter_filtered,       \* the passages returned
    \* ---- conventions: PassageGenerator ----
    pgen_pc,                \* position of the passage generation
    pgen_doc,               \* the document passages are generated from
    pgen_first,             \* passages of the first generation
    pgen_second,            \* passages of the second generation
    \* ---- conventions: PassageGenerator.generate_all_passages ----
    batch_pc,               \* position of generate_all_passages
    batch_documents,        \* the documents of the batch
    batch_passages,         \* self.passages of the generator
    \* ---- process-wide state written by the retrieve functions ----
    shared_pc,              \* position of each caller in its retrieve call
    shared_kind,            \* the pipeline each caller queries
    sys_stdout,             \* sys.stdout of the process
    old_stdout,             \* old_stdout of each conventions retrieve call
    global_pipeline,        \* _pipeline of the guide retrieval_function module
    shared_built,           \* the QueryPipeline instances constructed so far
    shared_overlapped,      \* whether a call started while another was running
    \* ---- BM25Index rebuilt while it is searched ----
    idx_pc,                 \* position of BM25Index.build_index
    idx_prior,              \* passages of the first build
    idx_new,                \* passages of the second build
    idx_query,              \* query tokens
    idx_index,              \* the BM25Index the searches read
    idx_pos,                \* documents indexed so far by the running build
    idx_builds,             \* completed builds
    idx_inplace,            \* TRUE when the second build ran on the same BM25Index
    idx_phase,              \* when the last search ran
    idx_prior_scores,       \* result of the search before the second build
    idx_scores              \* result of the last search

depot_vars == << depot_provider, depot_docs, depot_query, depot_bm25_scores, depot_dense_sims,
                 block_rule_layer, block_bm25_layer, block_dense_layer,
                 bm25_score_threshold, dense_score_threshold, depot_pc,
                 depot_consulted, depot_result, depot_output, depot_answer >>

ranker_vars == << ranker_use_dense, ranker_documents, ranker_dense, ranker_pc,
                  ranker_query, ranker_bm25_raw, ranker_dense_raw, ranker_results >>

guide_vars == << guide_enable_reranking, guide_dense_available, guide_pc, guide_query,
                 guide_top_k, guide_bm25_results, guide_dense_results, guide_results >>

conv_vars == << conv_config, conv_passages, conv_query, conv_dense, conv_cross_encoder, conv_pc,
                conv_entity_result, conv_retrieved, conv_filtered, conv_result,
                conv_answer >>

offers_vars == << offers_pc, offers_top_k, offers_candidates, offers_result, offers_rule_raw, offers_bm25_raw >>

norm_vars == << norm_pc, norm_impl, norm_pool, norm_result >>

sparse_vars == << sparse_pc, sparse_impl, sparse_postings, sparse_query, sparse_top_k, sparse_returned >>

intent_vars == << intent_pc, intent_use_priority_weights, intent_query, intent_result >>

efilter_vars == << efilter_pc, efilter_args, efilter_result, efilter_filtered >>

pgen_vars == << pgen_pc, pgen_doc, pgen_first, pgen_second >>

batch_vars == << batch_pc, batch_documents, batch_passages >>

shared_vars == << shared_pc, shared_kind, sys_stdout, old_stdout, global_pipeline, shared_built, shared_overlapped >>

index_vars == << idx_pc, idx_prior, idx_new, idx_query, idx_index, idx_pos, idx_builds, idx_inplace, idx_phase, idx_prior_scores, idx_scores >>

vars == << depot_vars, ranker_vars, guide_vars, conv_vars, offers_vars, norm_vars, sparse_vars, intent_vars, efilter_vars, pgen_vars, batch_vars, shared_vars, index_vars >>

\* What a run of one pipeline leaves alone.
DepotOnly == UNCHANGED << ranker_vars, guide_vars, conv_vars, offers_vars, norm_vars, sparse_vars, intent_vars, efilter_vars, pgen_vars, batch_vars, shared_vars, index_vars >>
RankerOnly == UNCHANGED << depot_vars, guide_vars, conv_vars, offers_vars, norm_vars, sparse_vars, intent_vars, efilter_vars, pgen_vars, batch_vars, shared_vars, index_vars >>
GuideOnly == UNCHANGED << depot_vars, ranker_vars, conv_vars, offers_vars, norm_vars, sparse_vars, intent_vars, efilter_vars, pgen_vars, batch_vars, shared_vars, index_vars >>
ConvOnly == UNCHANGED << depot_vars, ranker_vars, guide_vars, offers_vars, norm_vars, sparse_vars, intent_vars, efilter_vars, pgen_vars, batch_vars, shared_vars, index_vars >>
OffersOnly == UNCHANGED << depot_vars, ranker_vars, guide_vars, conv_vars, norm_vars, sparse_vars, intent_vars, efilter_vars, pgen_vars, batch_vars, shared_vars, index_vars >>
NormOnly == UNCHANGED << depot_vars, ranker_vars, guide_vars, conv_vars, offers_vars, sparse_vars, intent_vars, efilter_vars, pgen_vars, batch_vars, shared_vars, index_vars >>
SparseOnly == UNCHANGED << depot_vars, ranker_vars, guide_vars, conv_vars, offers_vars, norm_vars, intent_vars, efilter_vars, pgen_vars, batch_vars, shared_vars, index_vars >>
IntentOnly == UNCHANGED << depot_vars, ranker_vars, guide_vars, conv_vars, offers_vars, norm_vars, sparse_vars, efilter_vars, pgen_vars, batch_vars, shared_vars, index_vars >>
EntityFilterOnly == UNCHANGED << depot_vars, ranker_vars, guide_vars, conv_vars, offers_vars, norm_vars, sparse_vars, intent_vars, pgen_vars, batch_vars, shared_vars, index_vars >>
PassagesOnly == UNCHANGED << depot_vars, ranker_vars, guide_vars, conv_vars, offers_vars, norm_vars, sparse_vars, intent_vars, efilter_vars, batch_vars, shared_vars, index_vars >>
BatchOnly == UNCHANGED << depot_vars, ranker_vars, guide_vars, conv_vars, offers_vars, norm_vars, sparse_vars, intent_vars, efilter_vars, pgen_vars, shared_vars, index_vars >>
SharedOnly == UNCHANGED << depot_vars, ranker_vars, guide_vars, conv_vars, offers_vars, norm_vars, sparse_vars, intent_vars, efilter_vars, pgen_vars, batch_vars, index_vars >>
IndexOnly == UNCHANGED << depot_vars, ranker_vars, guide_vars, conv_vars, offers_vars, norm_vars, sparse_vars, intent_vars, efilter_vars, pgen_vars, batch_vars, shared_vars >>

None == "None"

(***************************************************************************)
(* Bounds of the model.                                                    *)
(***************************************************************************)
MaxScore == 2            \* external scores range over 0..MaxScore

\* Values explored for bm25_score_threshold and dense_score_threshold.
Thresholds == {0, 1, 2}

\* Outputs the language model may produce (sampling is enabled, so any text).
LLMOutputs == {"gen_a", "gen_b"}

(***************************************************************************)
(* rules.py                                                                *)
(***************************************************************************)
PRODUCT_PATTERNS ==
    [ buzz |-> { <<"buzz", "6">>, <<"buzz6">>, <<"buzz", "6", "pro">>,
                 <<"buzz", "6", "flip">>, <<"buzz", "6", "prime">>, <<"buzz6pro">> },
      zte |-> { <<"zte">>, <<"blade", "a35">>, <<"blade", "a55">>,
                <<"nubia", "v60">>, <<"zte", "blade">> },
      ibox |-> { <<"ibox">> },
      ekoteb |-> { <<"ekoteb">> },
      classateck |-> { <<"classateck">> },
      dorouscom |-> { <<"dorouscom">> },
      moalim |-> { <<"moalim">> },
      twin_box |-> { <<"twin", "box">>, <<"twinbox">> },
      cache_modem |-> { <<"cache", "modem">>, <<"caches", "modems">> },
      idoom_market |-> { <<"idoom", "market">>, <<"idom", "market">> } ]

\* Python `pattern in text` on word sequences.
InText(pattern, text) ==
    \E i \in 0..(Len(text) - Len(pattern)) :
        SubSeq(text, i + 1, i + Len(pattern)) = pattern

\* Step 1 of rule_based_filter: the pattern families the query mentions.
matched_keys(q) ==
    { key \in DOMAIN PRODUCT_PATTERNS :
        \E pattern \in PRODUCT_PATTERNS[key] : InText(pattern, q) }

\* doc.product_name + " " + " ".join(doc.keywords)
doc_text(doc) == doc.product_name \o doc.keywords

\* Step 2 of rule_based_filter: documents, in corpus order, that carry any
\* pattern of any matched family.
rule_based_filter(q, docs) ==
    LET keys == matched_keys(q)
        Match(doc) == \E key \in keys :
                         \E pattern \in PRODUCT_PATTERNS[key] :
                             InText(pattern, doc_text(doc))
    IN  IF keys = {} THEN << >> ELSE SelectSeq(docs, Match)

(***************************************************************************)
(* sparse.py / dense.py: the top-1 search used by retrieve (k = 1).        *)
(***************************************************************************)
MaxOf(f) == CHOOSE m \in { f[i] : i \in DOMAIN f } :
                \A i \in DOMAIN f : f[i] <= m

\* sorted(range(n), key=scores, reverse=True)[:1] is stable: among equal
\* scores the lowest index comes first.  Non-positive scores are dropped.
SparseSearchTop1(docs, scores) ==
    LET top == CHOOSE i \in DOMAIN scores :
                   /\ scores[i] = MaxOf(scores)
                   /\ \A j \in DOMAIN scores : scores[j] = MaxOf(scores) => i <= j
    IN  IF scores[top] > 0 THEN << [doc |-> docs[top], score |-> scores[top]] >>
        ELSE << >>

\* np.argsort(sims)[::-1][:1]: some index of maximal similarity (argsort is
\* not stable, so the choice among equal similarities is open).
DenseSearchTop1(docs, sims) ==
    { IF sims[i] > 0 THEN << [doc |-> docs[i], score |-> sims[i]] >> ELSE << >> :
        i \in { j \in DOMAIN sims : sims[j] = MaxOf(sims) } }

(***************************************************************************)
(* The corpora and queries explored.                                       *)
(***************************************************************************)
Doc(i, name, kw) ==
    [ id |-> i, product_name |-> name, keywords |-> kw,
      document_title |-> name,
      doc_french_link |-> << "fr", i >>, doc_arabic_link |-> << "ar", i >> ]

Corpora ==
    { << Doc(1, <<"buzz", "6", "pro">>, <<"smartphone">>),
         Doc(2, <<"ibox">>, <<"cloud">>) >>,
      << Doc(1, <<"buzz", "6", "flip">>, <<"smartphone">>),
         Doc(2, <<"buzz", "6", "pro">>, <<"smartphone">>) >>,
      << Doc(1, <<"modem">>, <<"wifi">>),
         Doc(2, <<"buzz", "6", "pro">>, <<"smartphone">>) >> }

Queries ==
    { <<"prix", "buzz", "6", "pro">>, <<"smartphone", "pas", "cher">> }

RuleScore == 1           \* the 1.0 returned with a Layer 1 match

LayerRule  == "Layer 1 (Rule-based)"
LayerBM25  == "Layer 2 (BM25)"
LayerDense == "Layer 3 (Dense)"

\* The initial values of a pipeline that the run does not exercise.
DepotIdle ==
    /\ depot_provider = "unknown"
    /\ depot_docs = << >>
    /\ depot_query = << >>
    /\ depot_bm25_scores = << >>
    /\ depot_dense_sims = << >>
    /\ block_rule_layer = FALSE
    /\ block_bm25_layer = FALSE
    /\ block_dense_layer = FALSE
    /\ bm25_score_threshold = 0
    /\ dense_score_threshold = 0
    /\ depot_pc = "idle"
    /\ depot_consulted = << >>
    /\ depot_result = None
    /\ depot_output = << >>
    /\ depot_answer = None

RankerIdle ==
    /\ ranker_use_dense = FALSE
    /\ ranker_documents = << >>
    /\ ranker_dense = "absent"
    /\ ranker_pc = "idle"
    /\ ranker_query = None
    /\ ranker_bm25_raw = << >>
    /\ ranker_dense_raw = << >>
    /\ ranker_results = << >>

GuideIdle ==
    /\ guide_enable_reranking = FALSE
    /\ guide_dense_available = FALSE
    /\ guide_pc = "idle"
    /\ guide_query = << >>
    /\ guide_top_k = 0
    /\ guide_bm25_results = << >>
    /\ guide_dense_results = << >>
    /\ guide_results = << >>

ConvIdle ==
    /\ conv_config = None
    /\ conv_passages = << >>
    /\ conv_query = None
    /\ conv_dense = "absent"
    /\ conv_cross_encoder = None
    /\ conv_pc = "idle"
    /\ conv_entity_result = None
    /\ conv_retrieved = << >>
    /\ conv_filtered = << >>
    /\ conv_result = None
    /\ conv_answer = None

OffersIdle ==
    /\ offers_pc = "idle"
    /\ offers_top_k = 0
    /\ offers_candidates = << >>
    /\ offers_result = << >>
    /\ offers_rule_raw = << >>
    /\ offers_bm25_raw = << >>

NormIdle ==
    /\ norm_pc = "idle"
    /\ norm_impl = None
    /\ norm_pool = << >>
    /\ norm_result = << >>

SparseIdle ==
    /\ sparse_pc = "idle"
    /\ sparse_impl = None
    /\ sparse_postings = << >>
    /\ sparse_query = << >>
    /\ sparse_top_k = 0
    /\ sparse_returned = << >>

IntentIdle ==
    /\ intent_pc = "idle"
    /\ intent_use_priority_weights = TRUE
    /\ intent_query = << >>
    /\ intent_result = None

EntityFilterIdle ==
    /\ efilter_pc = "idle"
    /\ efilter_args = None
    /\ efilter_result = None
    /\ efilter_filtered = << >>

PassagesIdle ==
    /\ pgen_pc = "idle"
    /\ pgen_doc = None
    /\ pgen_first = << >>
    /\ pgen_second = << >>

BatchIdle ==
    /\ batch_pc = "idle"
    /\ batch_documents = << >>
    /\ batch_passages = << >>

SharedIdle ==
    /\ shared_pc = << >>
    /\ shared_kind = << >>
    /\ sys_stdout = "console"
    /\ old_stdout = << >>
    /\ global_pipeline = None
    /\ shared_built = {}
    /\ shared_overlapped = FALSE

IndexIdle ==
    /\ idx_pc = None
    /\ idx_prior = << >>
    /\ idx_new = << >>
    /\ idx_query = << >>
    /\ idx_index = None
    /\ idx_pos = 0
    /\ idx_builds = 0
    /\ idx_inplace = FALSE
    /\ idx_phase = None
    /\ idx_prior_scores = << >>
    /\ idx_scores = << >>

DepotInit ==
    /\ depot_provider = "unknown"
    /\ depot_docs \in Corpora
    /\ depot_query \in Queries
    /\ depot_bm25_scores \in [1..2 -> 0..MaxScore]
    /\ depot_dense_sims \in [1..2 -> 0..MaxScore]
    /\ block_rule_layer \in BOOLEAN
    /\ block_bm25_layer \in BOOLEAN
    /\ block_dense_layer \in BOOLEAN
    /\ bm25_score_threshold \in Thresholds
    /\ dense_score_threshold \in Thresholds
    /\ depot_pc = "new"
    /\ depot_consulted = << >>
    /\ depot_result = None
    /\ depot_output = << >>
    /\ depot_answer = None

(***************************************************************************)
(* ThreeLayerRetriever.__init__ (called by call_pipeline): builds the      *)
(* sparse and the dense retriever unconditionally.  DenseRetriever.__init__*)
(* embeds the documents; when the provider cannot be loaded,               *)
(* _get_local_model / _get_gemini_client raise RuntimeError, which nothing *)
(* catches.                                                                *)
(***************************************************************************)
DepotConstruct ==
    /\ depot_pc = "new"
    /\ \E provider \in {"ok", "unavailable"} :
          /\ depot_provider' = provider
          /\ depot_pc' = IF provider = "ok" THEN "RULE_TRY" ELSE "ctor_raised"
    /\ UNCHANGED << depot_docs, depot_query, depot_bm25_scores, depot_dense_sims,
                    block_rule_layer, block_bm25_layer, block_dense_layer,
                    bm25_score_threshold, dense_score_threshold,
                    depot_consulted, depot_result, depot_output, depot_answer >>
    /\ DepotOnly

\* The tuple retrieve returns.  Layer 1 puts the French link fourth and the
\* Arabic link fifth; layers 2 and 3 put the Arabic link fourth.
Layer1Tuple(doc) ==
    << doc.document_title, LayerRule, RuleScore,
       doc.doc_french_link, doc.doc_arabic_link, doc >>

Layer2Tuple(doc, score) ==
    << doc.document_title, LayerBM25, score,
       doc.doc_arabic_link, doc.doc_french_link, doc >>

Layer3Tuple(doc, score) ==
    << doc.document_title, LayerDense, score,
       doc.doc_arabic_link, doc.doc_french_link, doc >>

DepotFrame ==
    /\ DepotOnly
    /\ UNCHANGED << depot_provider, depot_docs, depot_query, depot_bm25_scores, depot_dense_sims,
                 block_rule_layer, block_bm25_layer, block_dense_layer,
                 bm25_score_threshold, dense_score_threshold,
                 depot_output, depot_answer >>

\* A Layer 1 that records its match but lets the cascade continue.
RuleTry_fallthrough ==
    /\ depot_pc = "RULE_TRY"
    /\ IF block_rule_layer
       THEN /\ depot_pc' = "SPARSE_TRY"
            /\ UNCHANGED << depot_consulted, depot_result >>
       ELSE LET candidates == rule_based_filter(depot_query, depot_docs)
            IN  /\ depot_consulted' = Append(depot_consulted, LayerRule)
                /\ depot_pc' = "SPARSE_TRY"
                /\ depot_result' = IF candidates # << >>
                                   THEN Layer1Tuple(candidates[1]) ELSE depot_result
    /\ DepotFrame

\* retrieve, Layer 1 (three_layer.py 53-81)
RuleTry ==
    /\ depot_pc = "RULE_TRY"
    /\ IF block_rule_layer
       THEN /\ depot_pc' = "SPARSE_TRY"
            /\ UNCHANGED << depot_consulted, depot_result >>
       ELSE LET candidates == rule_based_filter(depot_query, depot_docs)
            IN  /\ depot_consulted' = Append(depot_consulted, LayerRule)
                /\ IF candidates # << >>
                   THEN /\ depot_result' = Layer1Tuple(candidates[1])
                        /\ depot_pc' = "DONE"
                   ELSE /\ depot_pc' = "SPARSE_TRY"
                        /\ UNCHANGED depot_result
    /\ DepotFrame

\* A strict comparison in place of `score >= self.bm25_score_threshold`.
BM25Accepts_strict(score) == score > bm25_score_threshold

\* retrieve, Layer 2 (three_layer.py 83-120)
BM25Accepts(score) == score >= bm25_score_threshold

SparseTry ==
    /\ depot_pc = "SPARSE_TRY"
    /\ IF block_bm25_layer
       THEN /\ depot_pc' = "DENSE_TRY"
            /\ UNCHANGED << depot_consulted, depot_result >>
       ELSE LET sparse_results == SparseSearchTop1(depot_docs, depot_bm25_scores)
            IN  /\ depot_consulted' = Append(depot_consulted, LayerBM25)
                /\ IF sparse_results # << >> /\ BM25Accepts(sparse_results[1].score)
                   THEN /\ depot_result' =
                              Layer2Tuple(sparse_results[1].doc, sparse_results[1].score)
                        /\ depot_pc' = "DONE"
                   ELSE /\ depot_pc' = "DENSE_TRY"
                        /\ UNCHANGED depot_result
    /\ DepotFrame

\* retrieve, Layer 3 and the final `return None` (three_layer.py 122-163)
DenseAccepts(score) == score >= dense_score_threshold

DenseTry ==
    /\ depot_pc = "DENSE_TRY"
    /\ IF block_dense_layer
       THEN /\ depot_pc' = "NOT_FOUND"
            /\ UNCHANGED << depot_consulted, depot_result >>
       ELSE \E dense_results \in DenseSearchTop1(depot_docs, depot_dense_sims) :
                /\ depot_consulted' = Append(depot_consulted, LayerDense)
                /\ IF dense_results # << >> /\ DenseAccepts(dense_results[1].score)
                   THEN /\ depot_result' =
                              Layer3Tuple(dense_results[1].doc, dense_results[1].score)
                        /\ depot_pc' = "DONE"
                   ELSE /\ depot_pc' = "NOT_FOUND"
                        /\ UNCHANGED depot_result
    /\ DepotFrame

\* call_pipeline (muuh.py 41-78): unpacks the tuple as
\* (title, layer, score, doc_french_link, doc_arabic_link, jason).
call_pipeline_documents(result) ==
    IF result = None THEN << >>
    ELSE << [ rank |-> 1, document_title |-> result[1], layer |-> result[2],
              score |-> result[3], doc_french_link |-> result[4],
              doc_arabic_link |-> result[5], jason_snippet |-> result[6] ] >>

\* run_depot_pipeline (depot.py 53-78): the first retrieved document, or {} when
\* there is none, is handed to the language model; its text is the answer.
DepotAnswer ==
    /\ depot_pc \in {"DONE", "NOT_FOUND"}
    /\ depot_output' = call_pipeline_documents(depot_result)
    /\ \E response_text \in LLMOutputs : depot_answer' = response_text
    /\ depot_pc' = "answered"
    /\ UNCHANGED << depot_provider, depot_docs, depot_query, depot_bm25_scores, depot_dense_sims,
                    block_rule_layer, block_bm25_layer, block_dense_layer,
                    bm25_score_threshold, dense_score_threshold,
                    depot_consulted, depot_result >>
    /\ DepotOnly

DepotNext == DepotConstruct \/ RuleTry \/ SparseTry \/ DenseTry \/ DepotAnswer

\* A run that exercises the depot pipeline.
DepotRunInit == DepotInit /\ RankerIdle /\ GuideIdle /\ ConvIdle /\ OffersIdle /\ NormIdle /\ SparseIdle /\ IntentIdle /\ EntityFilterIdle /\ PassagesIdle /\ BatchIdle /\ SharedIdle /\ IndexIdle

SpecDepot == DepotRunInit /\ [][DepotNext]_vars

(***************************************************************************)
(* Properties of the depot cascade.                                        *)
(***************************************************************************)
CascadeLayers == << LayerRule, LayerBM25, LayerDense >>

LayerRank(layer) == CHOOSE r \in 1..3 : CascadeLayers[r] = layer

LayerBlocked(layer) ==
    CASE layer = LayerRule  -> block_rule_layer
      [] layer = LayerBM25  -> block_bm25_layer
      [] layer = LayerDense -> block_dense_layer

\* The layer has a top candidate that clears its threshold: any candidate for
\* the rule layer, a positive score at or above the threshold for the others.
LayerClears(layer) ==
    CASE layer = LayerRule ->
            \E i \in DOMAIN depot_docs :
                \E key \in DOMAIN PRODUCT_PATTERNS :
                    /\ \E p \in PRODUCT_PATTERNS[key] : InText(p, depot_query)
                    /\ \E p \in PRODUCT_PATTERNS[key] :
                          InText(p, depot_docs[i].product_name \o depot_docs[i].keywords)
      [] layer = LayerBM25 ->
            \E i \in DOMAIN depot_bm25_scores :
                depot_bm25_scores[i] > 0 /\ depot_bm25_scores[i] >= bm25_score_threshold
      [] layer = LayerDense ->
            \E i \in DOMAIN depot_dense_sims :
                depot_dense_sims[i] > 0 /\ depot_dense_sims[i] >= dense_score_threshold

\* C1: retrieve consults the layers in the order rule, BM25, dense; a layer is
\* consulted only if it is not blocked and every earlier layer was blocked or
\* did not clear its threshold; once a layer clears, no later layer is
\* consulted and the result names that layer.
C1_CascadeOrder ==
    /\ \A i, j \in DOMAIN depot_consulted :
          i < j => LayerRank(depot_consulted[i]) < LayerRank(depot_consulted[j])
    /\ \A i \in DOMAIN depot_consulted :
          /\ ~LayerBlocked(depot_consulted[i])
          /\ \A r \in 1..(LayerRank(depot_consulted[i]) - 1) :
                LayerBlocked(CascadeLayers[r]) \/ ~LayerClears(CascadeLayers[r])
    /\ depot_result # None =>
          /\ depot_consulted # << >>
          /\ depot_result[2] = depot_consulted[Len(depot_consulted)]
          /\ LayerClears(depot_result[2])
    /\ (depot_result = None /\ depot_consulted # << >>) =>
          \A i \in 1..(Len(depot_consulted) - 1) : ~LayerClears(depot_consulted[i])

\* C1 witness: the rule layer was consulted and found nothing, BM25 won, and
\* the dense layer, although not blocked, was never consulted.
C1_Witness ==
    /\ depot_pc = "DONE"
    /\ depot_consulted = << LayerRule, LayerBM25 >>
    /\ depot_result[2] = LayerBM25
    /\ ~block_dense_layer
    /\ LayerClears(LayerDense)

\* C2: retrieve returns None exactly when no non-blocked layer has a top
\* candidate clearing its threshold; otherwise it returns one document of
\* the corpus.
C2_NoneIffNoLayerClears ==
    depot_pc \in {"DONE", "NOT_FOUND"} =>
        /\ (depot_result = None) <=>
              ~ \E r \in 1..3 :
                    ~LayerBlocked(CascadeLayers[r]) /\ LayerClears(CascadeLayers[r])
        /\ depot_result # None =>
              /\ Len(depot_result) = 6
              /\ \E i \in DOMAIN depot_docs : depot_result[6] = depot_docs[i]
              /\ depot_result[1] = depot_result[6].document_title
        /\ (depot_pc = "NOT_FOUND") <=> (depot_result = None)

\* C2 witness: all three layers were consulted, BM25 had a positive top
\* candidate exactly one unit under its threshold, and retrieve returned None.
C2_Witness ==
    /\ depot_pc = "NOT_FOUND"
    /\ depot_result = None
    /\ depot_consulted = CascadeLayers
    /\ MaxOf(depot_bm25_scores) > 0
    /\ MaxOf(depot_bm25_scores) + 1 = bm25_score_threshold

\* C2 witness of the other direction is C1_Witness; this one shows a BM25 top
\* score equal to the threshold being accepted.
C2_WitnessAtThreshold ==
    /\ depot_pc = "DONE"
    /\ depot_result # None
    /\ depot_result[2] = LayerBM25
    /\ depot_result[3] = bm25_score_threshold

\* C8 (as stated): when the embedding provider is unavailable at build time,
\* construction still completes.
C8_ConstructionCompletes ==
    depot_provider = "unavailable" => depot_pc # "ctor_raised"

\* C10 (as stated): when retrieval returned no document, the answer is a
\* fixed sentence, not text produced by the language model.
C10_FixedNotFoundAnswer ==
    (depot_pc = "answered" /\ depot_output = << >>) => depot_answer \notin LLMOutputs

(***************************************************************************)
(***************************************************************************)
(* Conventions pipeline: hybrid_ranker.py                                  *)
(*                                                                         *)
(* Scores are integers: Scale stands for 1.0.  Scale is a multiple of      *)
(* every divisor the computations use (score ranges up to 3, weights in    *)
(* tenths, boosts in eighths, the mean of up to 3 scores), so *)
(* every division below is exact.                                          *)
(***************************************************************************)
Scale == 6 * 10 * 8 * 4 * 60

\* A missing numeric field (Python None); a present one is << value >>.
NoValue == << >>

Abs(x) == IF x < 0 THEN -x ELSE x

SetMax(S) == CHOOSE m \in S : \A x \in S : x <= m
SetMin(S) == CHOOSE m \in S : \A x \in S : m <= x

\* The elements of a set of integers in ascending order (the order in which
\* CPython iterates a small set of small non-negative ints).
AscSeq(S) ==
    [ p \in 1..Cardinality(S) |->
        CHOOSE x \in S : Cardinality({ y \in S : y < x }) = p - 1 ]

\* list.sort(key=..., reverse=True) / sorted(..., reverse=True): descending by
\* key, equal keys keep their original order.  keys[i] is the key of seq[i].
SortDescBy(seq, keys) ==
    LET n == Len(seq)
        Rank(i) == 1 + Cardinality({ j \in 1..n :
                          keys[j] > keys[i] \/ (keys[j] = keys[i] /\ j < i) })
    IN  [ p \in 1..n |-> seq[CHOOSE i \in 1..n : Rank(i) = p] ]

\* seq[:k]
Take(seq, k) == SubSeq(seq, 1, IF k < Len(seq) THEN k ELSE Len(seq))

\* A passage as passage_generator.py emits it (fields the ranker reads).
Passage(i, doc, entity, price, speed, free) ==
    [ id |-> i, doc_id |-> doc, entity_code |-> entity,
      price_value |-> price, speed_mbps |-> speed, is_free |-> free ]

\* intent_classifier.py: weights in tenths.
HYBRID_WEIGHTS ==
    [ PRICE       |-> [ dense |-> 2, sparse |-> 8 ],
      SPEED       |-> [ dense |-> 3, sparse |-> 7 ],
      DOCUMENTS   |-> [ dense |-> 1, sparse |-> 9 ],
      BENEFICIARY |-> [ dense |-> 6, sparse |-> 4 ],
      GENERAL     |-> [ dense |-> 7, sparse |-> 3 ] ]

get_hybrid_weights(intent) ==
    IF intent \in DOMAIN HYBRID_WEIGHTS THEN HYBRID_WEIGHTS[intent]
    ELSE HYBRID_WEIGHTS.GENERAL

\* The order in which a query whose first term occurs in every hit enters
\* the hits into the score dict: that term's posting list, by passage index.
PostingOrder(raw) == AscSeq({ i \in DOMAIN raw : raw[i] > 0 })

\* BM25Index.search: only passages holding a query term get a score (always
\* positive); the dict items, in insertion order, are sorted by descending
\* score (a stable sort) and cut to top_k.
BM25Index_search(raw, inserted, top_k) ==
    LET scored == [ p \in DOMAIN inserted |->
                      [ id |-> inserted[p], score |-> raw[inserted[p]] ] ]
    IN  Take(SortDescBy(scored, [ p \in DOMAIN inserted |-> raw[inserted[p]] ]), top_k)

\* DenseRetriever.search: nothing without embeddings, else every passage with
\* its similarity, sorted descending, cut to top_k.
DenseRetriever_search(dense, raw, top_k) ==
    IF dense # "built" THEN << >>
    ELSE LET scored == [ i \in DOMAIN raw |-> [ id |-> i, score |-> raw[i] ] ]
         IN  Take(SortDescBy(scored, raw), top_k)

\* HybridRanker._normalize_scores: a map id -> (score - min) / (max - min),
\* the maximum replaced by 1 when it is 0 (`max(...) or 1`), then the range
\* replaced by 1 when it is 0.
HybridRanker_normalize_scores(scores) ==
    IF scores = << >> THEN << >>
    ELSE LET vals == { scores[i].score : i \in DOMAIN scores }
             max_score == IF SetMax(vals) = 0 THEN 1 ELSE SetMax(vals)
             min_score == SetMin(vals)
             range_score == IF max_score - min_score = 0 THEN 1
                            ELSE max_score - min_score
         IN  [ d \in { scores[i].id : i \in DOMAIN scores } |->
                 LET i == CHOOSE j \in DOMAIN scores : scores[j].id = d
                 IN  (Scale * (scores[i].score - min_score)) \div range_score ]

\* A price loop that gives the near-match factor where the exact-match
\* factor is due.
RECURSIVE price_factor_flat(_, _)
price_factor_flat(doc_price, query_prices) ==
    IF query_prices = << >> THEN 2
    ELSE IF Abs(doc_price - Head(query_prices)) <= 100 THEN 3
    ELSE price_factor_flat(doc_price, Tail(query_prices))

\* _apply_numeric_boost, the price loop: the first query price that matches
\* exactly (x2.0) or within 100 DA (x1.5) decides.  In halves: 4, 3, or 2.
RECURSIVE price_factor(_, _)
price_factor(doc_price, query_prices) ==
    IF query_prices = << >> THEN 2
    ELSE IF doc_price = Head(query_prices) THEN 4
    ELSE IF Abs(doc_price - Head(query_prices)) <= 100 THEN 3
    ELSE price_factor(doc_price, Tail(query_prices))

\* _apply_numeric_boost, the speed loop: exact (x2.0) or within 10% of the
\* passage's speed (x1.5).  In halves.
RECURSIVE speed_factor(_, _)
speed_factor(doc_speed, query_speeds) ==
    IF query_speeds = << >> THEN 2
    ELSE IF doc_speed = Head(query_speeds) THEN 4
    ELSE IF 10 * Abs(doc_speed - Head(query_speeds)) <= doc_speed THEN 3
    ELSE speed_factor(doc_speed, Tail(query_speeds))

\* _apply_numeric_boost: the product of the price, speed and free-offer
\* factors, in eighths (8 = x1.0).
apply_numeric_boost(doc, query_prices, query_speeds) ==
    LET price == IF doc.price_value # NoValue /\ query_prices # << >>
                 THEN price_factor(doc.price_value[1], query_prices) ELSE 2
        speed == IF doc.speed_mbps # NoValue /\ query_speeds # << >>
                 THEN speed_factor(doc.speed_mbps[1], query_speeds) ELSE 2
        free  == IF doc.is_free /\ \E i \in DOMAIN query_prices : query_prices[i] = 0
                 THEN 3 ELSE 2
    IN  price * speed * free

\* HybridRanker.search
HybridRanker_search(documents, dense, bm25_raw, dense_raw, intent, query_prices, query_speeds, top_k) ==
    LET weights == get_hybrid_weights(intent)
        bm25_scores == HybridRanker_normalize_scores(
                           BM25Index_search(bm25_raw, PostingOrder(bm25_raw), top_k * 2))
        dense_scores ==
            IF dense = "built"
            THEN HybridRanker_normalize_scores(
                     DenseRetriever_search(dense, dense_raw, top_k * 2))
            ELSE << >>
        all_doc_ids == AscSeq(DOMAIN bm25_scores \cup DOMAIN dense_scores)
        Scored(doc_id) ==
            LET bm25_score == IF doc_id \in DOMAIN bm25_scores
                              THEN bm25_scores[doc_id] ELSE 0
                dense_score == IF doc_id \in DOMAIN dense_scores
                               THEN dense_scores[doc_id] ELSE 0
                hybrid_score == (weights.sparse * bm25_score
                                 + weights.dense * dense_score) \div 10
                numeric_boost ==
                    apply_numeric_boost(documents[doc_id], query_prices, query_speeds)
            IN  [ passage |-> documents[doc_id],
                  bm25_score |-> bm25_score,
                  dense_score |-> dense_score,
                  hybrid_score |-> hybrid_score,
                  numeric_boost |-> numeric_boost,
                  signature_boost |-> 8,
                  final_score |-> (hybrid_score * numeric_boost) \div 8 ]
        scored_passages == [ p \in DOMAIN all_doc_ids |-> Scored(all_doc_ids[p]) ]
    IN  Take(SortDescBy(scored_passages,
                        [ p \in DOMAIN scored_passages |-> scored_passages[p].final_score ]),
             top_k)

(***************************************************************************)
(* The passages, queries and raw scores explored for the ranker.           *)
(***************************************************************************)
RankerCorpora ==
    { << Passage(1, "conv_A",  "A",  <<1000>>, <<100>>, FALSE),
         Passage(2, "conv_A",  "A",  <<1100>>, NoValue, FALSE),
         Passage(3, "conv_AD", "AD", <<0>>,    NoValue, TRUE) >>,
      << Passage(1, "conv_P",  "P",  NoValue,  <<105>>, FALSE),
         Passage(2, "conv_P",  "P",  <<0>>,    NoValue, FALSE),
         Passage(3, "conv_V",  "V",  <<50>>,   <<20>>,  TRUE) >> }

RankerQueries ==
    { [ intent |-> i, prices |-> p, speeds |-> s ] :
        i \in {"PRICE", "GENERAL"},
        p \in { << >>, <<0>>, <<1000>>, <<1200>>, <<1100, 1000>> },
        s \in { << >>, <<100>> } }

top_k_retrieval == 50

RankerInit ==
    /\ ranker_use_dense \in BOOLEAN
    /\ ranker_documents \in RankerCorpora
    /\ ranker_dense = IF ranker_use_dense THEN "unbuilt" ELSE "absent"
    /\ ranker_pc = "new"
    /\ ranker_query = None
    /\ ranker_bm25_raw = << >>
    /\ ranker_dense_raw = << >>
    /\ ranker_results = << >>

\* HybridRanker.build_index: the BM25 index, then the dense index if used.
\* DenseRetriever._load_model turns an ImportError into "no model" (the dense
\* index is then disabled); any other failure to load the model propagates.
RankerBuildIndex ==
    /\ ranker_pc = "new"
    /\ \E provider \in {"ok", "import_error", "load_error"} :
          IF ~ranker_use_dense
          THEN ranker_pc' = "ready" /\ UNCHANGED ranker_dense
          ELSE CASE provider = "ok" ->
                      ranker_pc' = "ready" /\ ranker_dense' = "built"
                 [] provider = "import_error" ->
                      ranker_pc' = "ready" /\ ranker_dense' = "disabled"
                 [] provider = "load_error" ->
                      ranker_pc' = "build_raised" /\ UNCHANGED ranker_dense
    /\ UNCHANGED << ranker_use_dense, ranker_documents, ranker_query,
                    ranker_bm25_raw, ranker_dense_raw, ranker_results >>
    /\ RankerOnly

RankerSearch ==
    /\ ranker_pc = "ready"
    /\ \E query \in RankerQueries,
          bm25_raw \in [DOMAIN ranker_documents -> 0..MaxScore],
          dense_raw \in [DOMAIN ranker_documents -> 0..MaxScore] :
          /\ ranker_dense # "built" => \A i \in DOMAIN dense_raw : dense_raw[i] = 0
          /\ ranker_query' = query
          /\ ranker_bm25_raw' = bm25_raw
          /\ ranker_dense_raw' = dense_raw
          /\ ranker_results' =
                HybridRanker_search(ranker_documents, ranker_dense, bm25_raw, dense_raw,
                                    query.intent, query.prices, query.speeds,
                                    top_k_retrieval)
    /\ ranker_pc' = "searched"
    /\ UNCHANGED << ranker_use_dense, ranker_documents, ranker_dense >>
    /\ RankerOnly

RankerNext == RankerBuildIndex \/ RankerSearch

(***************************************************************************)
(* Guide pipeline: step4_query_pipeline.py                                 *)
(***************************************************************************)
MaxSim == 1              \* guide dense similarities range over 0..MaxSim

DENSE_WEIGHT == 8        \* 0.80, in tenths
BM25_WEIGHT == 2         \* 0.20, in tenths
TITLE_BOOST == Scale \div 5

\* The guide sections indexed: id and the words of the guide title.
GuideDocs ==
    << [ doc_id |-> 1, guide_title |-> {"activation", "ligne", "fixe"} ],
       [ doc_id |-> 2, guide_title |-> {"resiliation", "ligne"} ],
       [ doc_id |-> 3, guide_title |-> {} ] >>

GuideQueries ==
    { <<"activation", "ligne">>,
      <<"comment", "payer", "facture", "ligne">> }

GuideTopKs == {1, 10}

SeqToSet(seq) == { seq[i] : i \in DOMAIN seq }

\* BM25Index.search (step2_sparse_index.py): the matching rows in ascending
\* order of SQLite's bm25() value, bm25_score being that value negated; so
\* descending bm25_score.  raw[i] = 0 stands for a row that does not match.
guide_sparse_retrieve(raw) ==
    LET hits == AscSeq({ i \in DOMAIN raw : raw[i] > 0 })
        rows == [ p \in DOMAIN hits |->
                    [ doc_id |-> hits[p], bm25_score |-> raw[hits[p]] ] ]
    IN  SortDescBy(rows, [ p \in DOMAIN hits |-> raw[hits[p]] ])

\* DenseIndex.search: the points returned with their similarity, best first.
\* raw[i] = 0 stands for a point that is not returned.
guide_dense_retrieve(raw) ==
    LET hits == AscSeq({ i \in DOMAIN raw : raw[i] > 0 })
        rows == [ p \in DOMAIN hits |->
                    [ doc_id |-> hits[p], dense_score |-> raw[hits[p]] ] ]
    IN  SortDescBy(rows, [ p \in DOMAIN hits |-> raw[hits[p]] ])

\* QueryPipeline.normalize_scores: min-max over a list; 0.5 each when all
\* scores are equal.
normalize_scores(scores) ==
    IF scores = << >> THEN << >>
    ELSE LET vals == SeqToSet(scores)
             min_s == SetMin(vals)
             max_s == SetMax(vals)
         IN  IF max_s = min_s THEN [ i \in DOMAIN scores |-> Scale \div 2 ]
             ELSE [ i \in DOMAIN scores |->
                      (Scale * (scores[i] - min_s)) \div (max_s - min_s) ]

\* The title boost of hybrid_fusion.
title_boost_for(query, guide_title) ==
    LET query_words == SeqToSet(query)
        overlap == query_words \cap guide_title
    IN  IF query = << >> \/ guide_title = {} THEN 0
        ELSE IF Cardinality(overlap) >= 2 THEN TITLE_BOOST
        ELSE IF Cardinality(overlap) = 1 /\ Cardinality(query_words) <= 3
             THEN TITLE_BOOST \div 2
        ELSE 0

\* bm25_score and dense_score hold the raw scores (1 stands for 1.0); the
\* hybrid, rerank and final scores are in units of 1 / Scale.
RetrievalResult(doc_id, bm25, dense, hybrid) ==
    [ doc_id |-> doc_id, bm25_score |-> bm25, dense_score |-> dense,
      hybrid_score |-> hybrid, rerank_score |-> 0, final_score |-> hybrid ]

\* QueryPipeline.hybrid_fusion
hybrid_fusion(bm25_results, dense_results, query) ==
    LET normalized_bm25 ==
            normalize_scores([ i \in DOMAIN bm25_results |-> bm25_results[i].bm25_score ])
        normalized_dense ==
            normalize_scores([ i \in DOMAIN dense_results |-> dense_results[i].dense_score ])
        bm25_ids == [ i \in DOMAIN bm25_results |-> bm25_results[i].doc_id ]
        dense_ids == [ i \in DOMAIN dense_results |-> dense_results[i].doc_id ]
        IsNew(d) == d \notin SeqToSet(bm25_ids)
        \* all_docs, in insertion order
        all_docs == bm25_ids \o SelectSeq(dense_ids, IsNew)
        PosIn(ids, d) == CHOOSE i \in DOMAIN ids : ids[i] = d
        Fused(d) ==
            LET in_bm25 == d \in SeqToSet(bm25_ids)
                in_dense == d \in SeqToSet(dense_ids)
                bm25_norm == IF in_bm25 THEN normalized_bm25[PosIn(bm25_ids, d)] ELSE 0
                dense_norm == IF in_dense THEN normalized_dense[PosIn(dense_ids, d)] ELSE 0
                hybrid_score == (DENSE_WEIGHT * dense_norm + BM25_WEIGHT * bm25_norm) \div 10
                                + title_boost_for(query, GuideDocs[d].guide_title)
            IN  RetrievalResult(
                    d,
                    IF in_bm25 THEN bm25_results[PosIn(bm25_ids, d)].bm25_score ELSE 0,
                    IF in_dense THEN dense_results[PosIn(dense_ids, d)].dense_score ELSE 0,
                    hybrid_score)
        results == [ p \in DOMAIN all_docs |-> Fused(all_docs[p]) ]
    IN  SortDescBy(results, [ p \in DOMAIN results |-> results[p].hybrid_score ])

\* A BM25-only branch that copies the sparse score into the dense field.
bm25_only_dense_copied(bm25_results) ==
    [ i \in DOMAIN bm25_results |->
        [ doc_id |-> bm25_results[i].doc_id,
          bm25_score |-> bm25_results[i].bm25_score,
          dense_score |-> bm25_results[i].bm25_score,
          hybrid_score |-> bm25_results[i].bm25_score * Scale,
          rerank_score |-> 0,
          final_score |-> bm25_results[i].bm25_score * Scale ] ]

\* The BM25-only branch of QueryPipeline.search.
bm25_only(bm25_results) ==
    [ i \in DOMAIN bm25_results |->
        RetrievalResult(bm25_results[i].doc_id, bm25_results[i].bm25_score, 0,
                        bm25_results[i].bm25_score * Scale) ]

\* QueryPipeline.rerank_crossencoder: the first 2 * top_k results get the
\* reranker's score as rerank and final score and are re-sorted by it; the
\* rest stay where they are.
rerank_crossencoder(results, rerank_scores, top_k) ==
    IF results = << >> THEN << >>
    ELSE LET n == IF 2 * top_k < Len(results) THEN 2 * top_k ELSE Len(results)
             Rescored(i) ==
                 [ results[i] EXCEPT !.rerank_score = rerank_scores[results[i].doc_id] * Scale,
                                     !.final_score = rerank_scores[results[i].doc_id] * Scale ]
             head == [ i \in 1..n |-> Rescored(i) ]
         IN  SortDescBy(head, [ i \in 1..n |-> head[i].rerank_score ])
             \o SubSeq(results, n + 1, Len(results))

GuideInit ==
    /\ guide_enable_reranking \in BOOLEAN
    /\ guide_dense_available = FALSE
    /\ guide_pc = "new"
    /\ guide_query \in GuideQueries
    /\ guide_top_k \in GuideTopKs
    /\ guide_bm25_results = << >>
    /\ guide_dense_results = << >>
    /\ guide_results = << >>

\* QueryPipeline.connect: a dense index that cannot be connected is recorded
\* as unavailable, not raised.
GuideConnect ==
    /\ guide_pc = "new"
    /\ \E dense_ok \in BOOLEAN : guide_dense_available' = dense_ok
    /\ guide_pc' = "connected"
    /\ UNCHANGED << guide_enable_reranking, guide_query, guide_top_k,
                    guide_bm25_results, guide_dense_results, guide_results >>
    /\ GuideOnly

\* QueryPipeline.search
GuideSearch ==
    /\ guide_pc = "connected"
    /\ \E bm25_raw \in [DOMAIN GuideDocs -> 0..MaxScore],
          dense_raw \in [DOMAIN GuideDocs -> 0..MaxSim],
          reranker \in {"ok", "unavailable"},
          rerank_scores \in [DOMAIN GuideDocs -> 0..1] :
          LET bm25_results == guide_sparse_retrieve(bm25_raw)
              dense_results == IF guide_dense_available
                               THEN guide_dense_retrieve(dense_raw) ELSE << >>
              fused_results == IF dense_results # << >>
                               THEN hybrid_fusion(bm25_results, dense_results, guide_query)
                               ELSE bm25_only(bm25_results)
              do_rerank == guide_enable_reranking /\ fused_results # << >>
          IN  /\ ~guide_dense_available => \A i \in DOMAIN dense_raw : dense_raw[i] = 0
              /\ ~do_rerank => (reranker = "ok" /\ \A i \in DOMAIN rerank_scores :
                                                      rerank_scores[i] = 0)
              /\ guide_bm25_results' = bm25_results
              /\ guide_dense_results' = dense_results
              /\ IF do_rerank /\ reranker = "unavailable"
                 THEN \* get_cross_encoder_reranker raises
                      /\ guide_pc' = "raised"
                      /\ UNCHANGED guide_results
                 ELSE /\ guide_pc' = "searched"
                      /\ guide_results' =
                            Take(IF do_rerank
                                 THEN rerank_crossencoder(fused_results, rerank_scores,
                                                          guide_top_k)
                                 ELSE fused_results,
                                 guide_top_k)
    /\ UNCHANGED << guide_enable_reranking, guide_dense_available, guide_query, guide_top_k >>
    /\ GuideOnly

GuideNext == GuideConnect \/ GuideSearch

\* One run exercises either the conventions ranker or the guide pipeline.
RankerOrGuideInit ==
    \/ RankerInit /\ GuideIdle /\ DepotIdle /\ ConvIdle /\ OffersIdle /\ NormIdle /\ SparseIdle /\ IntentIdle /\ EntityFilterIdle /\ PassagesIdle /\ BatchIdle /\ SharedIdle /\ IndexIdle
    \/ GuideInit /\ RankerIdle /\ DepotIdle /\ ConvIdle /\ OffersIdle /\ NormIdle /\ SparseIdle /\ IntentIdle /\ EntityFilterIdle /\ PassagesIdle /\ BatchIdle /\ SharedIdle /\ IndexIdle

RankerOrGuideNext == RankerBuildIndex \/ RankerSearch \/ GuideConnect \/ GuideSearch

SpecRanker == RankerOrGuideInit /\ [][RankerOrGuideNext]_vars

(***************************************************************************)
(* Properties of the hybrid ranker and of the guide pipeline.              *)
(***************************************************************************)
SortedByFinalDesc(results) ==
    \A i, j \in DOMAIN results :
        i < j => results[i].final_score >= results[j].final_score

\* The ranker results hold exactly one price extracted from the query and no
\* speed, and the passage of result r has a structured price.
OnePriceCase(r) ==
    /\ ranker_pc = "searched"
    /\ Len(ranker_query.prices) = 1
    /\ ranker_query.speeds = << >>
    /\ r.passage.price_value # NoValue

PriceGap(r) == Abs(r.passage.price_value[1] - ranker_query.prices[1])

\* C5 (as stated): with one query price and no other boost input, the final
\* score is exactly 2.0x the hybrid score when the passage price equals the
\* query price, 1.5x when it differs by at most 100, and 1.0x otherwise.
C5_PriceBoostAsStated ==
    ranker_pc = "searched" =>
        \A i \in DOMAIN ranker_results :
            LET r == ranker_results[i]
            IN  OnePriceCase(r) =>
                    CASE PriceGap(r) = 0   -> r.final_score = 2 * r.hybrid_score
                      [] PriceGap(r) \in 1..100 -> 2 * r.final_score = 3 * r.hybrid_score
                      [] OTHER             -> r.final_score = r.hybrid_score

\* C5 (amended): the price factor is 2.0x / 1.5x / 1.0x as stated, and it is
\* multiplied by the free-offer factor 1.5 when the query price is 0 and the
\* passage is flagged free; so an exact match on a free offer gives 3.0x.
C5_PriceBoostWithFreeFactor ==
    ranker_pc = "searched" =>
        \A i \in DOMAIN ranker_results :
            LET r == ranker_results[i]
                free == r.passage.is_free /\ ranker_query.prices[1] = 0
            IN  OnePriceCase(r) =>
                    CASE PriceGap(r) = 0 /\ ~free ->
                            r.final_score = 2 * r.hybrid_score
                      [] PriceGap(r) = 0 /\ free ->
                            r.final_score = 3 * r.hybrid_score
                      [] PriceGap(r) \in 1..100 /\ ~free ->
                            2 * r.final_score = 3 * r.hybrid_score
                      [] PriceGap(r) \in 1..100 /\ free ->
                            4 * r.final_score = 9 * r.hybrid_score
                      [] PriceGap(r) > 100 /\ ~free ->
                            r.final_score = r.hybrid_score
                      [] PriceGap(r) > 100 /\ free ->
                            2 * r.final_score = 3 * r.hybrid_score

\* C5 witness: one search with query price 1000 returns a passage priced 1000
\* at 2.0x, one priced 1100 at 1.5x and one priced 0 unboosted, each with a
\* positive hybrid score.
C5_Witness ==
    /\ ranker_pc = "searched"
    /\ ranker_query.prices = <<1000>>
    /\ ranker_query.speeds = << >>
    /\ \E i, j, k \in DOMAIN ranker_results :
          /\ ranker_results[i].passage.price_value = <<1000>>
          /\ ranker_results[i].hybrid_score > 0
          /\ ranker_results[i].final_score = 2 * ranker_results[i].hybrid_score
          /\ ranker_results[j].passage.price_value = <<1100>>
          /\ ranker_results[j].hybrid_score > 0
          /\ 2 * ranker_results[j].final_score = 3 * ranker_results[j].hybrid_score
          /\ ranker_results[k].passage.price_value = <<0>>
          /\ ranker_results[k].hybrid_score > 0
          /\ ranker_results[k].final_score = ranker_results[k].hybrid_score

ENTITY_CODES ==
    { "P", "V", "F", "A", "N", "O", "I", "AD", "AC", "AY", "E", "H", "J", "K",
      "L", "M", "Q", "R", "S", "T", "U", "W", "X" }

\* str.upper() on the codes that occur (lower-case spellings included).
UpperTable ==
    [ a |-> "A", ad |-> "AD", ac |-> "AC", p |-> "P", v |-> "V", unk |-> "UNK" ]

upper(text) == IF text \in DOMAIN UpperTable THEN UpperTable[text] ELSE text

\* list(detected_entities): the elements of the set in some order.
Orderings(S) ==
    { order \in [1..Cardinality(S) -> S] :
        \A i, j \in DOMAIN order : i # j => order[i] # order[j] }

\* EntityDetector.detect, given the codes the query's patterns matched: every
\* detected code comes with a matched pattern, so a non-empty detection is
\* explicit.  One result per order the set may be listed in.
detect(matched_codes, apply_hard_filter_by_default) ==
    { [ detected_entities |-> order,
        is_explicit |-> matched_codes # {},
        apply_hard_filter |-> /\ matched_codes # {}
                              /\ Cardinality(matched_codes) = 1
                              /\ apply_hard_filter_by_default ] :
        order \in Orderings(matched_codes \cap ENTITY_CODES) }

\* A comparison that accepts any code starting with the target's first letter
\* class (so "AD" passes for "A").
EntityMatches_prefix(entity_code, target_entity) ==
    \/ upper(entity_code) = upper(target_entity)
    \/ (upper(target_entity) = "A" /\ upper(entity_code) \in {"AD", "AC", "AY"})

\* p.get("entity_code", "").upper() == target_entity.upper()
EntityMatches(entity_code, target_entity) ==
    upper(entity_code) = upper(target_entity)

\* EntityDetector.filter_passages, on passage dicts.
filter_passages(passages, entity_result) ==
    IF ~entity_result.apply_hard_filter THEN passages
    ELSE IF entity_result.detected_entities = << >> THEN passages
    ELSE LET target_entity == entity_result.detected_entities[1]
             Keep(p) == EntityMatches(p.entity_code, target_entity)
         IN  SelectSeq(passages, Keep)

\* The entity hard filter of RetrievalPipeline.search, on scored passages.
hard_entity_filter(scored_passages, entity_result) ==
    IF entity_result.apply_hard_filter /\ entity_result.detected_entities # << >>
    THEN LET target_entity == entity_result.detected_entities[1]
             Keep(sp) == EntityMatches(sp.passage.entity_code, target_entity)
         IN  SelectSeq(scored_passages, Keep)
    ELSE scored_passages

(***************************************************************************)
(* signature_booster.py                                                    *)
(***************************************************************************)
\* SignatureBooster.compute_boost, given the boost the signature tokens earn
\* (raw, in eighths): halved when an entity filter is given and the passage
\* belongs to another entity, capped at 1.0, added to 1.0.  In eighths.
compute_boost(passage, raw, entity_code_filter) ==
    LET boost == IF entity_code_filter # None /\ passage.entity_code # entity_code_filter
                 THEN raw \div 2 ELSE raw
    IN  8 + (IF boost < 8 THEN boost ELSE 8)

\* SignatureBooster.apply_boost_to_passages
apply_boost_to_passages(scored_passages, raw_boosts, entity_code_filter) ==
    LET Boosted(sp) ==
            LET boost == compute_boost(sp.passage, raw_boosts[sp.passage.id],
                                       entity_code_filter)
            IN  [ sp EXCEPT !.signature_boost = boost,
                            !.final_score = (sp.final_score * boost) \div 8 ]
        boosted == [ i \in DOMAIN scored_passages |-> Boosted(scored_passages[i]) ]
    IN  SortDescBy(boosted, [ i \in DOMAIN boosted |-> boosted[i].final_score ])

(***************************************************************************)
(* cross_encoder_reranker.py and RetrievalPipeline._simple_aggregation     *)
(***************************************************************************)
RECURSIVE SumSeq(_)
SumSeq(seq) == IF seq = << >> THEN 0 ELSE Head(seq) + SumSeq(Tail(seq))

\* A mean that divides the sum of the top scores by 3 whatever their number.
MeanTop3_by3(scores) ==
    LET top3 == Take(SortDescBy(scores, scores), 3)
    IN  IF top3 = << >> THEN 0 ELSE SumSeq(top3) \div 3

\* sum(sorted(scores, reverse=True)[:3]) / len of that slice
MeanTop3(scores) ==
    LET top3 == Take(SortDescBy(scores, scores), 3)
    IN  IF top3 = << >> THEN 0 ELSE SumSeq(top3) \div Len(top3)

\* The doc_ids of the passages in the order a dict first receives them.
DocIdsInOrder(scored_passages) ==
    LET First(d) == SetMin({ i \in DOMAIN scored_passages :
                               scored_passages[i].passage.doc_id = d })
        firsts == AscSeq({ First(scored_passages[i].passage.doc_id) :
                             i \in DOMAIN scored_passages })
    IN  [ p \in DOMAIN firsts |-> scored_passages[firsts[p]].passage.doc_id ]

\* The scored passages of one document, in order.
OfDoc(scored_passages, doc_id) ==
    LET InDoc(sp) == sp.passage.doc_id = doc_id
    IN  SelectSeq(scored_passages, InDoc)

FinalScores(scored_passages) ==
    [ i \in DOMAIN scored_passages |-> scored_passages[i].final_score ]

Passages(scored_passages) ==
    [ i \in DOMAIN scored_passages |-> scored_passages[i].passage ]

\* RetrievalPipeline._simple_aggregation
simple_aggregation(scored_passages, top_k) ==
    LET doc_ids == DocIdsInOrder(scored_passages)
        Result(doc_id) ==
            LET mine == OfDoc(scored_passages, doc_id)
                scores == FinalScores(mine)
                max_score == SetMax(SeqToSet(scores))
                top3_mean == MeanTop3(scores)
            IN  [ doc_id |-> doc_id,
                  aggregated_score |-> max_score + top3_mean \div 2,
                  hybrid_score_max |-> max_score,
                  hybrid_score_mean_top3 |-> top3_mean,
                  cross_encoder_score |-> 0,
                  best_passage |-> mine[1].passage,
                  all_passages |-> Passages(mine) ]
        results == [ p \in DOMAIN doc_ids |-> Result(doc_ids[p]) ]
    IN  Take(SortDescBy(results,
                        [ p \in DOMAIN results |-> results[p].aggregated_score ]),
             top_k)

\* CrossEncoderReranker.rerank_with_aggregation, given the scores the model
\* predicts for the passages (by passage id).
rerank_with_aggregation(scored_passages, predict, top_k_passages, top_k_docs) ==
    LET top == Take(scored_passages, top_k_passages)
        doc_ids == DocIdsInOrder(top)
        \* the passage of the document with the best hybrid score (the first
        \* of them, as list.index finds it)
        Best(doc_id) ==
            LET mine == OfDoc(top, doc_id)
                scores == FinalScores(mine)
                best_idx == SetMin({ i \in DOMAIN scores :
                                       scores[i] = SetMax(SeqToSet(scores)) })
            IN  mine[best_idx].passage
        best_passages == [ p \in DOMAIN doc_ids |-> Best(doc_ids[p]) ]
        \* rerank: sorted by the predicted score, descending
        reranked == SortDescBy(best_passages,
                               [ p \in DOMAIN best_passages |->
                                   predict[best_passages[p].id] ])
        Result(passage) ==
            LET scores == FinalScores(OfDoc(top, passage.doc_id))
                max_hybrid == SetMax(SeqToSet(scores))
                mean_top3 == MeanTop3(scores)
            IN  [ doc_id |-> passage.doc_id,
                  cross_encoder_score |-> predict[passage.id],
                  hybrid_score_max |-> max_hybrid,
                  hybrid_score_mean_top3 |-> mean_top3,
                  aggregated_score |-> (5 * predict[passage.id] + 3 * max_hybrid
                                        + 2 * mean_top3) \div 10,
                  best_passage |-> passage,
                  all_passages |-> Passages(OfDoc(top, passage.doc_id)) ]
        final_results == [ p \in DOMAIN reranked |-> Result(reranked[p]) ]
    IN  Take(SortDescBy(final_results,
                        [ p \in DOMAIN final_results |->
                            final_results[p].aggregated_score ]),
             top_k_docs)

\* The top_passages entries of a SearchResult.
TopPassage(sp) ==
    [ id |-> sp.passage.id, doc_id |-> sp.passage.doc_id,
      entity_code |-> sp.passage.entity_code, score |-> sp.final_score,
      bm25_score |-> sp.bm25_score, dense_score |-> sp.dense_score,
      numeric_boost |-> sp.numeric_boost, signature_boost |-> sp.signature_boost ]

(***************************************************************************)
(* RetrievalPipeline (conventions) and run_conventions_pipeline            *)
(***************************************************************************)
top_k_rerank == 30
top_k_final == 10
top_passages_cut == 20

\* Values explored for PipelineConfig.top_k_retrieval: the default, and a
\* pool smaller than the corpus.
RetrievalPools == { 2, top_k_retrieval }

PipelineConfigs ==
    [ use_dense_retrieval : BOOLEAN, use_cross_encoder : BOOLEAN,
      apply_hard_entity_filter : BOOLEAN, enable_signature_boost : BOOLEAN,
      top_k_retrieval : RetrievalPools ]

\* The configuration query_retrieve.retrieve builds.
RetrieveConfig ==
    [ use_dense_retrieval |-> FALSE, use_cross_encoder |-> FALSE,
      apply_hard_entity_filter |-> TRUE, enable_signature_boost |-> TRUE,
      top_k_retrieval |-> top_k_retrieval ]

NOT_FOUND_CONVENTION == "No relevant convention found for your question."

\* The establishments a query may name ("X" has no passage in the corpora).
ConvMentions == { {}, {"A"}, {"AD"}, {"P"}, {"X"}, {"A", "AD"} }

\* Raw BM25 scores, dense similarities, signature boosts (eighths) and
\* cross-encoder predictions explored, by passage id.
ConvBM25Profiles == { <<0, 0, 0>>, <<2, 1, 1>>, <<1, 2, 0>>, <<0, 0, 1>> }
ConvDenseProfiles == { <<1, 2, 2>>, <<2, 0, 1>> }
ConvSignatureProfiles == { <<0, 0, 0>>, <<4, 16, 4>>, <<4, 4, 4>> }
ConvPredictProfiles == { << Scale, 0, Scale \div 2 >>, << 0, Scale, 0 >> }
Zeros == <<0, 0, 0>>

\* The queries explored for a pipeline in a given state: similarities only
\* with a dense index, signature boosts only with the booster enabled,
\* predictions only with a loaded cross-encoder.
ConvQueries(config, dense, cross_encoder) ==
    { [ mentions |-> m, intent |-> i, prices |-> p, speeds |-> << >>,
        bm25_raw |-> b, dense_raw |-> d, signature_raw |-> g, predict |-> c,
        top_k |-> k ] :
        m \in ConvMentions, i \in {"PRICE", "GENERAL"}, p \in { << >>, <<1000>> },
        b \in ConvBM25Profiles,
        d \in IF dense = "built" THEN ConvDenseProfiles ELSE {Zeros},
        g \in IF config.enable_signature_boost THEN ConvSignatureProfiles ELSE {Zeros},
        c \in IF cross_encoder = "CrossEncoderReranker" THEN ConvPredictProfiles
              ELSE {Zeros},
        k \in {0, 1} }

\* RetrievalPipeline.__init__
ConvInit ==
    /\ conv_config \in PipelineConfigs
    /\ conv_passages \in RankerCorpora
    /\ conv_query = None
    /\ conv_dense = "absent"
    /\ conv_cross_encoder = None
    /\ conv_pc = "new"
    /\ conv_entity_result = None
    /\ conv_retrieved = << >>
    /\ conv_filtered = << >>
    /\ conv_result = None
    /\ conv_answer = None

\* RetrievalPipeline.initialize: HybridRanker.build_index (as RankerBuildIndex),
\* the signature booster, then get_reranker when the cross-encoder is
\* configured: the CrossEncoderReranker if its model loads, else a
\* FallbackReranker (_load_model catches every exception).
ConvInitialize ==
    /\ conv_pc = "new"
    /\ \E provider \in {"ok", "import_error", "load_error"},
          cross_encoder_loads \in BOOLEAN :
          LET get_reranker == IF cross_encoder_loads THEN "CrossEncoderReranker"
                              ELSE "FallbackReranker"
          IN  IF conv_config.use_dense_retrieval /\ provider = "load_error"
              THEN /\ conv_pc' = "init_raised"
                   /\ conv_dense' = "unbuilt"
                   /\ UNCHANGED conv_cross_encoder
              ELSE /\ conv_pc' = "ready"
                   /\ conv_dense' = IF ~conv_config.use_dense_retrieval THEN "absent"
                                    ELSE IF provider = "ok" THEN "built"
                                    ELSE "disabled"
                   /\ conv_cross_encoder' = IF conv_config.use_cross_encoder
                                            THEN get_reranker ELSE None
    /\ UNCHANGED << conv_config, conv_passages, conv_query, conv_entity_result,
                    conv_retrieved, conv_filtered, conv_result, conv_answer >>
    /\ ConvOnly

\* The entity handed to the signature booster: detected_entities[0]
BoostEntityOf(entity_result) ==
    IF entity_result.detected_entities # << >>
    THEN entity_result.detected_entities[1] ELSE None

\* The result dict of RetrievalPipeline.search.
SearchResultOf(query, entity_result, retrieved, filtered, scored_passages, final_docs) ==
    [ intent |-> query.intent,
      detected_entities |-> entity_result.detected_entities,
      entity_filter_applied |-> entity_result.apply_hard_filter,
      top_documents |-> final_docs,
      top_passages |->
          LET cut == Take(scored_passages, top_passages_cut)
          IN  [ i \in DOMAIN cut |-> TopPassage(cut[i]) ],
      total_passages_retrieved |-> Len(retrieved),
      total_passages_after_filter |-> Len(filtered) ]

\* Steps 5 and 6 of RetrievalPipeline.search: rerank and aggregate.  A
\* FallbackReranker has no rerank_with_aggregation: the call raises
\* AttributeError.
SearchAggregate(config, cross_encoder, query, entity_result, retrieved, filtered, scored_passages) ==
    LET top_k == IF query.top_k = 0 THEN top_k_final ELSE query.top_k
        reranks == config.use_cross_encoder /\ cross_encoder # None
    IN  [ entity_result |-> entity_result,
          retrieved |-> retrieved,
          filtered |-> filtered,
          entity_filter |-> BoostEntityOf(entity_result),
          raised |-> reranks /\ cross_encoder = "FallbackReranker",
          result |-> IF reranks
                     THEN IF cross_encoder = "FallbackReranker" THEN None
                          ELSE SearchResultOf(query, entity_result, retrieved, filtered, scored_passages,
                                              rerank_with_aggregation(scored_passages, query.predict,
                                                                      top_k_rerank, top_k))
                     ELSE SearchResultOf(query, entity_result, retrieved, filtered, scored_passages,
                                         simple_aggregation(scored_passages, top_k)) ]

\* Step 4 of RetrievalPipeline.search: the signature boost.
SearchBoost(config, query, entity_result, filtered) ==
    IF config.enable_signature_boost
    THEN apply_boost_to_passages(filtered, query.signature_raw, BoostEntityOf(entity_result))
    ELSE filtered

\* RetrievalPipeline.search: the outcomes it can have for a query, one per
\* listing of the detected entities (steps 2 to 6: retrieval, entity filter,
\* signature boost, rerank and aggregation).
RetrievalPipeline_search(config, passages, dense, cross_encoder, query) ==
    UNION { UNION { UNION {
        { SearchAggregate(config, cross_encoder, query, entity_result, retrieved, filtered, scored_passages) :
            scored_passages \in { SearchBoost(config, query, entity_result, filtered) } } :
          filtered \in { hard_entity_filter(retrieved, entity_result) } } :
        entity_result \in detect(query.mentions, config.apply_hard_entity_filter) } :
      retrieved \in { HybridRanker_search(passages, dense, query.bm25_raw, query.dense_raw,
                                          query.intent, query.prices, query.speeds,
                                          config.top_k_retrieval) } }

\* RetrievalPipeline.search on an initialized pipeline.
ConvSearch ==
    /\ conv_pc = "ready"
    /\ \E query \in ConvQueries(conv_config, conv_dense, conv_cross_encoder) :
       \E out \in RetrievalPipeline_search(conv_config, conv_passages, conv_dense,
                                           conv_cross_encoder, query) :
          /\ conv_query' = query
          /\ conv_entity_result' = out.entity_result
          /\ conv_retrieved' = out.retrieved
          /\ conv_filtered' = out.filtered
          /\ conv_result' = out.result
          /\ conv_pc' = IF out.raised THEN "search_raised" ELSE "searched"
    /\ UNCHANGED << conv_config, conv_passages, conv_dense, conv_cross_encoder,
                    conv_answer >>
    /\ ConvOnly

\* run_conventions_pipeline after retrieve (its own configuration, top_k=1):
\* the fixed sentence when retrieve found no document (none returned, or its
\* doc_id is not a filename of conventions.json), else the LLM's text.
ConvAnswer ==
    /\ conv_pc = "searched"
    /\ conv_config = RetrieveConfig
    /\ conv_query.top_k = 1
    /\ \E in_doc_map \in BOOLEAN, response_text \in LLMOutputs :
          LET doc_found == conv_result.top_documents # << >> /\ in_doc_map
          IN  conv_answer' = IF ~doc_found THEN NOT_FOUND_CONVENTION
                             ELSE response_text
    /\ conv_pc' = "answered"
    /\ UNCHANGED << conv_config, conv_passages, conv_query, conv_dense,
                    conv_cross_encoder, conv_entity_result, conv_retrieved,
                    conv_filtered, conv_result >>
    /\ ConvOnly

ConvNext == ConvInitialize \/ ConvSearch \/ ConvAnswer

ConvRunInit == ConvInit /\ DepotIdle /\ RankerIdle /\ GuideIdle /\ OffersIdle /\ NormIdle /\ SparseIdle /\ IntentIdle /\ EntityFilterIdle /\ PassagesIdle /\ BatchIdle /\ SharedIdle /\ IndexIdle

SpecConv == ConvRunInit /\ [][ConvNext]_vars

(***************************************************************************)
(* Properties of the conventions pipeline                                  *)
(***************************************************************************)
ConvSearchRan == conv_pc \in {"searched", "search_raised", "answered"}

\* Detection yielded exactly one entity, to be applied as a hard filter.
HardFilterCase ==
    /\ ConvSearchRan
    /\ conv_entity_result.apply_hard_filter
    /\ Len(conv_entity_result.detected_entities) = 1

\* C3: when detection yields exactly one entity with the hard filter on, the
\* filtered passages are exactly the retrieved passages whose entity_code is
\* that entity: none of another entity is kept, no matching one is dropped
\* (nor duplicated or reordered); EntityDetector.filter_passages agrees.
C3_HardFilterExact ==
    HardFilterCase =>
        LET entity == conv_entity_result.detected_entities[1]
            matching == { i \in DOMAIN conv_retrieved :
                            conv_retrieved[i].passage.entity_code = entity }
        IN  /\ \A j \in DOMAIN conv_filtered :
                  /\ conv_filtered[j].passage.entity_code = entity
                  /\ \E i \in matching : conv_retrieved[i] = conv_filtered[j]
            /\ \A i \in matching :
                  \E j \in DOMAIN conv_filtered : conv_filtered[j] = conv_retrieved[i]
            /\ Len(conv_filtered) = Cardinality(matching)
            /\ filter_passages(Passages(conv_retrieved), conv_entity_result)
                   = Passages(conv_filtered)

\* A search where the hard filter kept some retrieved passages and removed
\* others.
C3_Witness ==
    /\ HardFilterCase
    /\ conv_pc = "searched"
    /\ conv_filtered # << >>
    /\ Len(conv_filtered) < Len(conv_retrieved)

\* C7: with the cross-encoder configured but not loadable, search completes
\* and returns document aggregates; no exception reaches the caller.
C7_FallbackCompletesSearch ==
    (/\ ConvSearchRan
     /\ conv_config.use_cross_encoder
     /\ conv_cross_encoder = "FallbackReranker")
        => conv_pc # "search_raised"

\* C9: when no candidate is left after retrieval and filtering, search
\* returns a result with empty document and passage lists and does not raise.
C9_EmptyResultNotError ==
    (ConvSearchRan /\ conv_filtered = << >>)
        => /\ conv_pc # "search_raised"
           /\ conv_result.top_documents = << >>
           /\ conv_result.top_passages = << >>

\* The same, for pipelines whose reranker has rerank_with_aggregation.
EmptyResultUnlessFallback ==
    (ConvSearchRan /\ conv_filtered = << >> /\ conv_cross_encoder # "FallbackReranker")
        => /\ conv_pc # "search_raised"
           /\ conv_result.top_documents = << >>
           /\ conv_result.top_passages = << >>
           /\ conv_result.total_passages_after_filter = 0

(***************************************************************************)
(***************************************************************************)
(* Offers pipeline: rule_router.py, sparse_index.py, pipeline.py           *)
(***************************************************************************)
\* Largest raw rule score and raw BM25 score explored.
OffersMaxScore == 2
\* Longest candidate list handed to _build_result on its own.
MaxCandidates == 4

OffersDocs == 1..3
OffersTopKs == {0, 1, 2, 3, 5}

\* MARGIN = 0.05, in hundredths.
MARGIN == 5

\* A rule filter that returns every document, the zero-scored included.
filter_candidates_all(rule_raw) ==
    LET hits == AscSeq(DOMAIN rule_raw)
        scores == [ p \in DOMAIN hits |-> [ doc_index |-> hits[p],
                                            score |-> rule_raw[hits[p]] ] ]
    IN  Take(SortDescBy(scores, [ p \in DOMAIN hits |-> rule_raw[hits[p]] ]), 15)

\* RuleRouter.filter_candidates: the documents the rules score above 0, by
\* descending score (routing-index order among equals).
filter_candidates(rule_raw) ==
    LET hits == AscSeq({ d \in DOMAIN rule_raw : rule_raw[d] > 0 })
        scores == [ p \in DOMAIN hits |-> [ doc_index |-> hits[p],
                                            score |-> rule_raw[hits[p]] ] ]
    IN  Take(SortDescBy(scores, [ p \in DOMAIN hits |-> rule_raw[hits[p]] ]), 15)

\* Min-max normalisation of search_fused: (raw - min) / max(max - min, 1e-6),
\* which is 0 when all values are equal.
fused_norm(raw, values) ==
    IF SetMax(values) = SetMin(values) THEN 0
    ELSE (Scale * (raw - SetMin(values))) \div (SetMax(values) - SetMin(values))

\* SparseIndex.search_fused
search_fused(query_tokens_empty, bm25_raw_scores, rule_candidates, top_k) ==
    IF query_tokens_empty THEN << >>
    ELSE LET rule_scores(d) ==
                 IF \E p \in DOMAIN rule_candidates : rule_candidates[p].doc_index = d
                 THEN (CHOOSE c \in SeqToSet(rule_candidates) : c.doc_index = d).score
                 ELSE 0
             indices == IF rule_candidates = << >> THEN AscSeq(OffersDocs)
                        ELSE [ p \in DOMAIN rule_candidates |->
                                 rule_candidates[p].doc_index ]
             bm25_vals == { bm25_raw_scores[indices[p]] : p \in DOMAIN indices }
             rule_vals == { rule_scores(indices[p]) : p \in DOMAIN indices }
             Combined(doc_idx) ==
                 LET bm25_norm == fused_norm(bm25_raw_scores[doc_idx], bm25_vals)
                     rule_norm == fused_norm(rule_scores(doc_idx), rule_vals)
                     combined_score == bm25_norm + (5 * rule_norm) \div 4
                 IN  [ doc_index |-> doc_idx,
                       score |-> IF rule_scores(doc_idx) = 0
                                 THEN (7 * combined_score) \div 10
                                 ELSE combined_score ]
             combined == [ p \in DOMAIN indices |-> Combined(indices[p]) ]
         IN  Take(SortDescBy(combined, [ p \in DOMAIN combined |-> combined[p].score ]),
                  top_k)

\* A test that also promotes at a relative gap of exactly the margin.
within_margin_inclusive(score_a, score_b) ==
    score_a > 0 /\ 100 * (score_a - score_b) <= MARGIN * score_a

\* score_a > 0.0 and (score_a - score_b) / score_a < MARGIN
within_margin(score_a, score_b) ==
    score_a > 0 /\ 100 * (score_a - score_b) < MARGIN * score_a

Min3(a, b, c) == SetMin({a, b, c})

\* _build_result, the dynamic top-N selection.
final_top_k(candidates, top_k) ==
    LET by_margin ==
            IF Len(candidates) >= 2
               /\ within_margin(candidates[1].score, candidates[2].score)
            THEN IF Len(candidates) >= 3
                    /\ within_margin(candidates[2].score, candidates[3].score)
                 THEN 3 ELSE 2
            ELSE 1
    IN  Min3(by_margin, Len(candidates), top_k)

NO_DOCUMENT_CONTEXT == "No relevant document found."

\* _build_result, for a selection that is not empty (selected_candidates[0]
\* raises IndexError otherwise).
build_result(candidates, top_k) ==
    IF candidates = << >>
    THEN [ layer_used |-> "sparse_fused", best_document_summary |-> << >>,
           candidates_summary |-> << >>, llm_context |-> NO_DOCUMENT_CONTEXT,
           retrieved_documents |-> << >> ]
    ELSE LET selected_candidates == Take(candidates, final_top_k(candidates, top_k))
             retrieved_documents ==
                 [ i \in DOMAIN selected_candidates |->
                     [ doc_index |-> selected_candidates[i].doc_index,
                       score |-> selected_candidates[i].score,
                       layer |-> "sparse_fused" ] ]
             candidate_info_summary ==
                 [ i \in DOMAIN selected_candidates |->
                     [ doc_index |-> selected_candidates[i].doc_index,
                       score |-> selected_candidates[i].score ] ]
         IN  [ layer_used |-> "sparse_fused",
               best_document_summary |-> << candidate_info_summary[1] >>,
               candidates_summary |-> candidate_info_summary,
               llm_context |-> "context of the best document",
               retrieved_documents |-> retrieved_documents ]

\* Score levels for candidate lists handed to _build_result on its own (in
\* tenths: 100 is 10.0).
ScoreLevels == {0, 40, 49, 50, 95, 98, 100}

\* Candidate lists in descending score order, as search_fused sorts them.
CandidateLists ==
    UNION { { [ i \in 1..n |-> [ doc_index |-> i, score |-> scores[i] ] ] :
                scores \in { f \in [1..n -> ScoreLevels] :
                               \A i, j \in 1..n : i < j => f[i] >= f[j] } } :
            n \in 0..MaxCandidates }

RuleRaws == [OffersDocs -> 0..OffersMaxScore]
BM25Raws == [OffersDocs -> 0..OffersMaxScore]

\* RetrievalPipeline.__init__ (offers), and the caller's choice of top_k.
OffersInit ==
    /\ offers_pc = "new"
    /\ offers_top_k \in OffersTopKs
    /\ offers_candidates = << >>
    /\ offers_result = << >>
    /\ offers_rule_raw = << >>
    /\ offers_bm25_raw = << >>

\* What _build_result does with the candidates it is handed: the result, or
\* the IndexError of selected_candidates[0] when the selection is empty.
OffersReturn(candidates) ==
    /\ offers_candidates' = candidates
    /\ IF candidates # << >> /\ final_top_k(candidates, offers_top_k) = 0
       THEN offers_pc' = "raised" /\ offers_result' = << >>
       ELSE /\ offers_pc' = "returned"
            /\ offers_result' = build_result(candidates, offers_top_k)
    /\ UNCHANGED offers_top_k
    /\ OffersOnly

\* RetrievalPipeline.search: rule filter, sparse fusion over a pool of
\* max(2 * top_k, 5) candidates, then _build_result.
OffersSearch ==
    /\ offers_pc = "new"
    /\ \E query_tokens_empty \in BOOLEAN, rule_raw \in RuleRaws, bm25_raw \in BM25Raws :
          LET rule_candidates == filter_candidates(rule_raw)
              CANDIDATE_POOL_SIZE == IF 2 * offers_top_k > 5 THEN 2 * offers_top_k ELSE 5
              final_candidates ==
                  search_fused(query_tokens_empty, bm25_raw, rule_candidates,
                               CANDIDATE_POOL_SIZE)
          IN  /\ OffersReturn(final_candidates)
              /\ offers_rule_raw' = rule_raw
              /\ offers_bm25_raw' = bm25_raw

\* _build_result applied to a sorted candidate list.
OffersBuildResult ==
    /\ offers_pc = "new"
    /\ \E candidates \in CandidateLists : OffersReturn(candidates)
    /\ UNCHANGED << offers_rule_raw, offers_bm25_raw >>

OffersNext == OffersSearch \/ OffersBuildResult

OffersRunInit == OffersInit /\ DepotIdle /\ RankerIdle /\ GuideIdle /\ ConvIdle /\ NormIdle /\ SparseIdle /\ IntentIdle /\ EntityFilterIdle /\ PassagesIdle /\ BatchIdle /\ SharedIdle /\ IndexIdle

SpecOffers == OffersRunInit /\ [][OffersNext]_vars

(***************************************************************************)
(* Properties of the offers pipeline                                       *)
(***************************************************************************)
ScoresOf(candidates) == [ i \in DOMAIN candidates |-> candidates[i].score ]

\* The relative gap (a - b) / a is below 0.05.
GapBelowMargin(a, b) == 20 * (a - b) < a

\* C4: for candidates in descending score order and a maximum top_k, the
\* number N of documents returned is at least 1 and at most top_k; N >= 2
\* exactly when s1 > 0, (s1-s2)/s1 < 0.05 and top_k allows it; N = 3 exactly
\* when additionally s2 > 0, (s2-s3)/s2 < 0.05 and top_k allows it; the
\* documents are the first N candidates; scores [10.0, 9.8, 4.0] give N = 2
\* and [10.0, 5.0, 4.9] give N = 1.
C4_DynamicTopN ==
    (offers_pc = "returned" /\ offers_candidates # << >>) =>
        LET s == ScoresOf(offers_candidates)
            N == Len(offers_result.retrieved_documents)
            two == /\ Len(s) >= 2 /\ offers_top_k >= 2
                   /\ s[1] > 0 /\ GapBelowMargin(s[1], s[2])
            three == /\ two /\ Len(s) >= 3 /\ offers_top_k >= 3
                     /\ s[2] > 0 /\ GapBelowMargin(s[2], s[3])
        IN  /\ N >= 1 /\ N <= 3 /\ N <= offers_top_k
            /\ (N >= 2) <=> two
            /\ (N = 3) <=> three
            /\ \A i \in 1..N :
                  /\ offers_result.retrieved_documents[i].doc_index
                         = offers_candidates[i].doc_index
                  /\ offers_result.retrieved_documents[i].score = s[i]
            /\ (s = <<100, 98, 40>> /\ offers_top_k >= 2) => N = 2
            /\ s = <<100, 50, 49>> => N = 1

\* Scores [10.0, 9.8, 4.0] with room for three: two documents returned.
C4_Witness ==
    /\ offers_pc = "returned"
    /\ ScoresOf(offers_candidates) = <<100, 98, 40>>
    /\ offers_top_k = 3
    /\ Len(offers_result.retrieved_documents) = 2

\* Scores [10.0, 5.0, 4.9]: one document returned although the second gap is
\* small.
C4_WitnessWideFirstGap ==
    /\ offers_pc = "returned"
    /\ ScoresOf(offers_candidates) = <<100, 50, 49>>
    /\ offers_top_k = 3
    /\ Len(offers_result.retrieved_documents) = 1

\* Three close scores from search itself: three documents returned.
C4_WitnessThreeFromSearch ==
    /\ offers_pc = "returned"
    /\ Len(offers_candidates) = 3
    /\ offers_candidates[1].score > offers_candidates[3].score
    /\ Len(offers_result.retrieved_documents) = 3

\* No candidate after the rule filter and sparse fusion: the empty result.
OffersEmptyResult ==
    (offers_pc # "new" /\ offers_pc # "idle" /\ offers_candidates = << >>)
        => /\ offers_pc = "returned"
           /\ offers_result.retrieved_documents = << >>
           /\ offers_result.candidates_summary = << >>
           /\ offers_result.llm_context = NO_DOCUMENT_CONTEXT

(***************************************************************************)
(* Properties of the rule layer of the depot pipeline                      *)
(***************************************************************************)
NamedProduct == <<"buzz", "6", "pro">>

\* C11: with the rule layer enabled, a query naming "buzz 6 pro" and that
\* product's document in the corpus, retrieve returns that document from
\* Layer 1 with score 1.0, whatever the corpus order and the other products
\* of the family.
C11_NamedProductReturned ==
    (/\ depot_pc \in {"DONE", "NOT_FOUND"}
     /\ ~block_rule_layer
     /\ InText(NamedProduct, depot_query)
     /\ \E i \in DOMAIN depot_docs : depot_docs[i].product_name = NamedProduct)
        => /\ depot_pc = "DONE"
           /\ depot_result[6].product_name = NamedProduct
           /\ depot_result[2] = LayerRule
           /\ depot_result[3] = RuleScore

\* The same, for corpora in which no other document carries a pattern of the
\* family: the match is then the named product.
NamedProductAlone ==
    (/\ depot_pc \in {"DONE", "NOT_FOUND"}
     /\ ~block_rule_layer
     /\ InText(NamedProduct, depot_query)
     /\ \E i \in DOMAIN depot_docs : depot_docs[i].product_name = NamedProduct
     /\ \A i \in DOMAIN depot_docs :
           depot_docs[i].product_name # NamedProduct
               => ~ \E pattern \in PRODUCT_PATTERNS.buzz :
                        InText(pattern, doc_text(depot_docs[i])))
        => /\ depot_pc = "DONE"
           /\ depot_result[6].product_name = NamedProduct
           /\ depot_result[2] = LayerRule
           /\ depot_result[3] = RuleScore

(***************************************************************************)
(***************************************************************************)
(* Score normalisation: HybridRanker._normalize_scores (conventions),      *)
(* QueryPipeline.normalize_scores (guide), SparseIndex.search_fused        *)
(* (offers), each applied to a pool of raw scores.                         *)
(***************************************************************************)
\* Longest pool and largest raw score explored; cosine similarities may be
\* negative.
MaxPool == 3
MaxRaw == 2
RawLevels == -1..MaxRaw

Pools == UNION { [1..n -> RawLevels] : n \in 0..MaxPool }

NormInit ==
    /\ norm_pc = "new"
    /\ norm_impl = None
    /\ norm_pool \in Pools
    /\ norm_result = << >>

NormApply(impl, result) ==
    /\ norm_pc = "new"
    /\ norm_pc' = "normalized"
    /\ norm_impl' = impl
    /\ norm_result' = result
    /\ UNCHANGED norm_pool
    /\ NormOnly

\* bm25_scores = self._normalize_scores(bm25_results), the passage ids being
\* the positions in the pool.
NormHybridRanker ==
    LET scores == [ i \in DOMAIN norm_pool |-> [ id |-> i, score |-> norm_pool[i] ] ]
        normalized == HybridRanker_normalize_scores(scores)
    IN  NormApply("HybridRanker", [ i \in DOMAIN norm_pool |-> normalized[i] ])

\* norm_bm25 = self.normalize_scores(bm25_scores)
NormQueryPipeline ==
    NormApply("QueryPipeline", normalize_scores(norm_pool))

\* bm25_norm of search_fused, for each candidate index.
NormSearchFused ==
    NormApply("search_fused",
              [ i \in DOMAIN norm_pool |-> fused_norm(norm_pool[i], SeqToSet(norm_pool)) ])

NormNext == NormHybridRanker \/ NormQueryPipeline \/ NormSearchFused

NormRunInit == NormInit /\ DepotIdle /\ RankerIdle /\ GuideIdle /\ ConvIdle /\ OffersIdle /\ SparseIdle /\ IntentIdle /\ EntityFilterIdle /\ PassagesIdle /\ BatchIdle /\ SharedIdle /\ IndexIdle

SpecNorm == NormRunInit /\ [][NormNext]_vars

(***************************************************************************)
(* Properties of the normalisers                                           *)
(***************************************************************************)
Normalized == norm_pc = "normalized"

TopOfPool == SetMax(SeqToSet(norm_pool))
BottomOfPool == SetMin(SeqToSet(norm_pool))

\* C12: for every non-empty pool each normalised score lies in [0, 1] and
\* the pool's highest-scoring candidate is normalised to exactly 1.0.
C12_MaxIsOne ==
    (Normalized /\ norm_pool # << >>) =>
        /\ Len(norm_result) = Len(norm_pool)
        /\ \A i \in DOMAIN norm_result : 0 <= norm_result[i] /\ norm_result[i] <= Scale
        /\ \A i \in DOMAIN norm_pool : norm_pool[i] = TopOfPool => norm_result[i] = Scale

\* The pools the conventions ranker rescales by max or 1: the maximum is 0.
ZeroMaxInHybridRanker == norm_impl = "HybridRanker" /\ TopOfPool = 0

\* What does hold: every normalised score lies in [0, 1]; when the pool
\* holds two different scores, the lowest-scoring candidate is normalised to
\* 0.0 and the highest-scoring one to 1.0 (in the conventions ranker: unless
\* the pool's maximum is exactly 0).
MaxIsOneForDistinctScores ==
    (Normalized /\ norm_pool # << >>) =>
        /\ Len(norm_result) = Len(norm_pool)
        /\ \A i \in DOMAIN norm_result : 0 <= norm_result[i] /\ norm_result[i] <= Scale
        /\ TopOfPool # BottomOfPool =>
              \A i \in DOMAIN norm_pool :
                  /\ norm_pool[i] = BottomOfPool => norm_result[i] = 0
                  /\ (norm_pool[i] = TopOfPool /\ ~ZeroMaxInHybridRanker)
                         => norm_result[i] = Scale

\* A pool of three different scores normalised by the conventions ranker.
DistinctScoresNormalized ==
    /\ Normalized
    /\ norm_impl = "HybridRanker"
    /\ norm_pool = <<1, 2, -1>>
    /\ norm_result = << (2 * Scale) \div 3, Scale, 0 >>

\* C13: normalising an empty pool yields an empty result, and normalising a
\* pool of a single score yields 0.5 for that candidate.
C13_EmptyAndSingle ==
    Normalized =>
        /\ norm_pool = << >> => norm_result = << >>
        /\ Len(norm_pool) = 1 => norm_result = << Scale \div 2 >>

\* The same, for the guide's normaliser alone.
QueryPipelineEmptyAndSingle ==
    (Normalized /\ norm_impl = "QueryPipeline") =>
        /\ norm_pool = << >> => norm_result = << >>
        /\ Len(norm_pool) = 1 => norm_result = << Scale \div 2 >>

(***************************************************************************)
(***************************************************************************)
(* BM25 search: BM25Index.search (conventions, hybrid_ranker.py) and       *)
(* SparseRetriever.search (depot, sparse.py) over an inverted index of     *)
(* three passages and two terms.                                           *)
(***************************************************************************)
\* Largest contribution idf * tf-part of one term to one passage.
MaxTermScore == 2

SparsePassages == 1..3
SparseTerms == {"fibre", "prix"}
SparseQueries ==
    { << >>, <<"fibre">>, <<"prix">>, <<"fibre", "prix">>, <<"prix", "fibre">>,
      <<"prix", "prix">> }
SparseTopKs == {1, 2, 5}

\* The score a passage accumulates over the query tokens.
TermScoreSum(postings, query, passage) ==
    SumSeq([ i \in DOMAIN query |-> postings[query[i]][passage] ])

\* The order in which BM25Index.search enters passages into its score dict:
\* token by token, each token's posting list by passage index.
RECURSIVE InsertionOrder(_, _)
InsertionOrder(postings, query) ==
    IF query = << >> THEN << >>
    ELSE LET before == InsertionOrder(postings, SubSeq(query, 1, Len(query) - 1))
             term == query[Len(query)]
             new == { d \in SparsePassages : postings[term][d] > 0 } \ SeqToSet(before)
         IN  before \o AscSeq(new)

\* SparseRetriever.search without candidates: all passages sorted by
\* descending score (stable), cut to k, those with a score <= 0 left out.
SparseRetriever_search(scores, k) ==
    LET indices == AscSeq(DOMAIN scores)
        ordered == Take(SortDescBy(indices, scores), k)
        Positive(i) == scores[i] > 0
        kept == SelectSeq(ordered, Positive)
    IN  [ p \in DOMAIN kept |-> [ id |-> kept[p], score |-> scores[kept[p]] ] ]

SparseInit ==
    /\ sparse_pc = "indexed"
    /\ sparse_impl = None
    /\ sparse_postings \in [SparseTerms -> [SparsePassages -> 0..MaxTermScore]]
    /\ sparse_query \in SparseQueries
    /\ sparse_top_k \in SparseTopKs
    /\ sparse_returned = << >>

SparseReturn(impl, results) ==
    /\ sparse_pc = "indexed"
    /\ sparse_pc' = "searched"
    /\ sparse_impl' = impl
    /\ sparse_returned' = results
    /\ UNCHANGED << sparse_postings, sparse_query, sparse_top_k >>
    /\ SparseOnly

\* BM25Index.search (conventions)
SparseBM25Index ==
    LET raw == [ d \in SparsePassages |->
                   TermScoreSum(sparse_postings, sparse_query, d) ]
    IN  SparseReturn("BM25Index",
                     BM25Index_search(raw, InsertionOrder(sparse_postings, sparse_query),
                                      sparse_top_k))

\* SparseRetriever.search (depot)
SparseSparseRetriever ==
    LET scores == [ d \in SparsePassages |->
                      TermScoreSum(sparse_postings, sparse_query, d) ]
    IN  SparseReturn("SparseRetriever", SparseRetriever_search(scores, sparse_top_k))

SparseNext == SparseBM25Index \/ SparseSparseRetriever

SparseRunInit == SparseInit /\ DepotIdle /\ RankerIdle /\ GuideIdle /\ ConvIdle /\ OffersIdle /\ NormIdle /\ IntentIdle /\ EntityFilterIdle /\ PassagesIdle /\ BatchIdle /\ SharedIdle /\ IndexIdle

SpecSparse == SparseRunInit /\ [][SparseNext]_vars

(***************************************************************************)
(* Properties of the BM25 searches                                         *)
(***************************************************************************)
\* At most top_k pairs, in non-increasing score order, equal scores in
\* passage index order.
OrderedWithIndexTies(results, top_k) ==
    /\ Len(results) <= top_k
    /\ \A p, q \in DOMAIN results :
          p < q => \/ results[p].score > results[q].score
                   \/ (results[p].score = results[q].score
                       /\ results[p].id < results[q].id)

\* C14: BM25 search returns at most top_k (passage, score) pairs in
\* non-increasing score order, passages of equal score in their original
\* index order.
C14_DescendingIndexTies ==
    sparse_pc = "searched" => OrderedWithIndexTies(sparse_returned, sparse_top_k)

\* The same for the depot's SparseRetriever alone.
SparseRetrieverDescendingIndexTies ==
    (sparse_pc = "searched" /\ sparse_impl = "SparseRetriever")
        => OrderedWithIndexTies(sparse_returned, sparse_top_k)

\* BM25Index.search: at most top_k pairs in non-increasing score order, every
\* passage at most once, each with its positive accumulated score.
BM25IndexDescending ==
    (sparse_pc = "searched" /\ sparse_impl = "BM25Index") =>
        /\ Len(sparse_returned) <= sparse_top_k
        /\ \A p, q \in DOMAIN sparse_returned :
              p < q => /\ sparse_returned[p].score >= sparse_returned[q].score
                       /\ sparse_returned[p].id # sparse_returned[q].id
        /\ \A p \in DOMAIN sparse_returned :
              /\ sparse_returned[p].score > 0
              /\ sparse_returned[p].score
                     = TermScoreSum(sparse_postings, sparse_query, sparse_returned[p].id)

(***************************************************************************)
(* Properties of the document aggregation of the conventions pipeline      *)
(***************************************************************************)
ConvReturned == conv_pc \in {"searched", "answered"}

\* The final scores of a document's passages, as the result lists them.
ScoresOfDoc(doc_id) ==
    LET OfThisDoc(tp) == tp.doc_id = doc_id
        mine == SelectSeq(conv_result.top_passages, OfThisDoc)
    IN  [ i \in DOMAIN mine |-> mine[i].score ]

\* The mean of the (at most three) scores of a document of the corpora.
MeanOfDoc(doc_id) == SumSeq(ScoresOfDoc(doc_id)) \div Len(ScoresOfDoc(doc_id))

MaxOfDoc(doc_id) == SetMax(SeqToSet(ScoresOfDoc(doc_id)))

\* The returned documents are in descending aggregated_score order, each
\* document once.
AggregatesDescending ==
    \A p, q \in DOMAIN conv_result.top_documents :
        p < q => /\ conv_result.top_documents[p].aggregated_score
                        >= conv_result.top_documents[q].aggregated_score
                 /\ conv_result.top_documents[p].doc_id
                        # conv_result.top_documents[q].doc_id

\* 0.5 * rerank score of the best passage + 0.3 * max + 0.2 * mean of top 3
RerankWeighted(doc) ==
    (5 * doc.cross_encoder_score + 3 * MaxOfDoc(doc.doc_id)
     + 2 * MeanOfDoc(doc.doc_id)) \div 10

SimpleAggregationOfTwo ==
    /\ ConvReturned
    /\ conv_cross_encoder = None
    /\ Len(conv_result.top_documents) = 2
    /\ conv_result.top_documents[1].aggregated_score
           > conv_result.top_documents[2].aggregated_score
    /\ conv_result.top_documents[2].aggregated_score > 0

(***************************************************************************)
(* Conventions: the intent classifier (intent_classifier.py).              *)
(* Scores are kept in tenths (a trigger counts 10, the priority bonus is   *)
(* the priority itself) and the confidence as the fraction num / den.      *)
(***************************************************************************)
MaxWords == 3

\* class Intent(Enum), in definition order
Intents == << "PRICE", "SPEED", "DOCUMENTS", "BENEFICIARY", "GENERAL" >>

IntentSet == SeqToSet(Intents)

\* Single-word triggers of each intent (a subset of TRIGGERS).
TRIGGERS == [ PRICE |-> {"prix", "tarif"}, SPEED |-> {"debit", "fibre"}, DOCUMENTS |-> {"dossier"}, BENEFICIARY |-> {"retraite"}, GENERAL |-> {"convention"} ]

\* An INTENT_PRIORITY turned upside down.
INTENT_PRIORITY_reversed == [ PRICE |-> 1, SPEED |-> 2, DOCUMENTS |-> 3, BENEFICIARY |-> 4, GENERAL |-> 5 ]

INTENT_PRIORITY == [ PRICE |-> 5, SPEED |-> 4, DOCUMENTS |-> 3, BENEFICIARY |-> 2, GENERAL |-> 1 ]

\* The words queries are made of: one trigger per intent and a neutral word.
IntentWords == {"prix", "debit", "dossier", "retraite", "convention", "bonjour"}

IntentQueries == UNION { [ 1..n -> IntentWords ] : n \in 0..MaxWords }

\* _count_triggers: the matches of the intent's patterns in the query
count_triggers(query, intent) ==
    Cardinality({ i \in DOMAIN query : query[i] \in TRIGGERS[intent] })

\* _compute_scores, in tenths
compute_scores(query, use_priority_weights) ==
    [ intent \in IntentSet |->
        LET count == count_triggers(query, intent)
        IN  IF use_priority_weights /\ count > 0
            THEN 10 * count + INTENT_PRIORITY[intent]
            ELSE 10 * count ]

\* max(top_intents, key=INTENT_PRIORITY): the first of the maximal ones
MaxByPriority(top_intents) ==
    LET best == SetMax({ INTENT_PRIORITY[top_intents[i]] : i \in DOMAIN top_intents })
        first == SetMin({ i \in DOMAIN top_intents : INTENT_PRIORITY[top_intents[i]] = best })
    IN  top_intents[first]

classify(query, use_priority_weights) ==
    LET scores == compute_scores(query, use_priority_weights)
        max_score == SetMax({ scores[i] : i \in IntentSet })
        IsTop(intent) == scores[intent] = max_score
        top_intents == SelectSeq(Intents, IsTop)
        total == SumSeq([ i \in DOMAIN Intents |-> scores[Intents[i]] ])
    IN  IF max_score = 0
        THEN [ primary_intent |-> "GENERAL", confidence |-> [ num |-> 1, den |-> 2 ] ]
        ELSE [ primary_intent |-> IF Len(top_intents) = 1 THEN top_intents[1]
                                  ELSE MaxByPriority(top_intents),
               confidence |-> [ num |-> max_score, den |-> total ] ]

IntentInit ==
    /\ intent_pc = "ready"
    /\ intent_use_priority_weights \in BOOLEAN
    /\ intent_query \in IntentQueries
    /\ intent_result = None

\* IntentClassifier.classify
IntentClassify ==
    /\ intent_pc = "ready"
    /\ intent_result' = classify(intent_query, intent_use_priority_weights)
    /\ intent_pc' = "classified"
    /\ UNCHANGED << intent_use_priority_weights, intent_query >>
    /\ IntentOnly

IntentNext == IntentClassify

IntentRunInit == IntentInit /\ DepotIdle /\ RankerIdle /\ GuideIdle /\ ConvIdle /\ OffersIdle /\ NormIdle /\ SparseIdle /\ EntityFilterIdle /\ PassagesIdle /\ BatchIdle /\ SharedIdle /\ IndexIdle

SpecIntent == IntentRunInit /\ [][IntentNext]_vars

(***************************************************************************)
(* Properties of the intent classifier                                     *)
(***************************************************************************)
Classified == intent_pc = "classified"

CountOf(intent) == count_triggers(intent_query, intent)

TotalCount == SumSeq([ i \in DOMAIN Intents |-> CountOf(Intents[i]) ])

\* the position of an intent in PRICE > SPEED > DOCUMENTS > BENEFICIARY > GENERAL
RankOf(intent) == CHOOSE i \in DOMAIN Intents : Intents[i] = intent

\* C16: classify returns the intent with the highest trigger count; among
\* intents tied on count the one first in PRICE > SPEED > DOCUMENTS >
\* BENEFICIARY > GENERAL; and GENERAL when no trigger fires.
C16_HighestCountThenPriority ==
    Classified =>
        IF TotalCount = 0
        THEN intent_result.primary_intent = "GENERAL"
        ELSE \A other \in IntentSet :
                \/ CountOf(other) < CountOf(intent_result.primary_intent)
                \/ /\ CountOf(other) = CountOf(intent_result.primary_intent)
                   /\ RankOf(intent_result.primary_intent) <= RankOf(other)

\* Two intents tied on a positive count, neither of them PRICE, resolved
\* for the one higher in the order.
C16_Witness ==
    /\ Classified
    /\ CountOf("DOCUMENTS") = 1
    /\ CountOf("GENERAL") = 1
    /\ TotalCount = 2
    /\ intent_result.primary_intent = "DOCUMENTS"

\* An intent with two triggers wins over PRICE with one.
CountBeatsPriority ==
    /\ Classified
    /\ CountOf("PRICE") = 1
    /\ CountOf("GENERAL") = 2
    /\ intent_result.primary_intent = "GENERAL"

NothingFires == Classified /\ TotalCount = 0 /\ intent_query # << >>

\* C17 as stated: the confidence is the winning intent's trigger count over
\* the total trigger count, and 0.5 when no trigger fires.
C17_ConfidenceIsCountRatio ==
    Classified =>
        IF TotalCount = 0
        THEN 2 * intent_result.confidence.num = intent_result.confidence.den
        ELSE intent_result.confidence.num * TotalCount
                 = CountOf(intent_result.primary_intent) * intent_result.confidence.den

\* What the classifier reports: the ratio of the scores, priority bonus
\* included; the ratio of the counts when the bonus is switched off or a
\* single intent fires.
ConfidenceIsScoreRatio ==
    Classified /\ TotalCount > 0 =>
        LET bonus(intent) == IF intent_use_priority_weights /\ CountOf(intent) > 0
                             THEN INTENT_PRIORITY[intent] ELSE 0
            all == SumSeq([ i \in DOMAIN Intents |-> bonus(Intents[i]) ])
        IN  /\ intent_result.confidence.num
                  = 10 * CountOf(intent_result.primary_intent) + bonus(intent_result.primary_intent)
            /\ intent_result.confidence.den = 10 * TotalCount + all

CountRatioWithoutBonus ==
    Classified /\ TotalCount > 0
        /\ (~intent_use_priority_weights \/ TotalCount = CountOf(intent_result.primary_intent)) =>
            intent_result.confidence.num * TotalCount
                = CountOf(intent_result.primary_intent) * intent_result.confidence.den

(***************************************************************************)
(* Conventions: EntityDetector.detect + filter_passages called directly,   *)
(* and through EntityFilter.apply (entity_detector.py).                    *)
(***************************************************************************)
\* The sets of entity codes a query's patterns match ("X" is no known code).
EntityMentions == SUBSET {"A", "AD", "P", "X"}

\* Passage lists handed to the filter (dicts with id and entity_code).
EntityPassageLists ==
    { << >>,
      << [ id |-> 1, entity_code |-> "A" ] >>,
      << [ id |-> 1, entity_code |-> "A" ], [ id |-> 2, entity_code |-> "ad" ], [ id |-> 3, entity_code |-> "P" ] >>,
      << [ id |-> 1, entity_code |-> "P" ], [ id |-> 2, entity_code |-> "AD" ] >> }

\* via: "detector" for EntityDetector.detect followed by filter_passages,
\* "filter" for EntityFilter.apply, whose detector is built with defaults.
EntityFilterInit ==
    /\ efilter_pc = "ready"
    /\ efilter_args \in
         { [ via |-> v, mentions |-> mt, passages |-> ps, apply_hard_filter_by_default |-> d, force_filter |-> f ] :
             v \in {"detector", "filter"}, mt \in EntityMentions, ps \in EntityPassageLists,
             d \in BOOLEAN, f \in BOOLEAN }
    /\ (efilter_args.via = "detector" => ~efilter_args.force_filter)
    /\ (efilter_args.via = "filter" => efilter_args.apply_hard_filter_by_default)
    /\ efilter_result = None
    /\ efilter_filtered = << >>

\* EntityFilter.apply(query, passages, force_filter): the results it can
\* return, one per listing of the detected set.
EntityFilter_apply(mentions, passages, force_filter) ==
    { LET result == IF force_filter /\ detected.detected_entities # << >>
                    THEN [ detected EXCEPT !.apply_hard_filter = TRUE ]
                    ELSE detected
      IN  [ filtered_passages |-> filter_passages(passages, result), result |-> result ] :
      detected \in detect(mentions, TRUE) }

\* detector.detect(query) then detector.filter_passages(passages, result)
EntityDetectAndFilter ==
    /\ efilter_pc = "ready"
    /\ efilter_args.via = "detector"
    /\ \E result \in detect(efilter_args.mentions, efilter_args.apply_hard_filter_by_default) :
          /\ efilter_result' = result
          /\ efilter_filtered' = filter_passages(efilter_args.passages, result)
    /\ efilter_pc' = "filtered"
    /\ UNCHANGED efilter_args
    /\ EntityFilterOnly

\* EntityFilter.apply
EntityFilterApply ==
    /\ efilter_pc = "ready"
    /\ efilter_args.via = "filter"
    /\ \E out \in EntityFilter_apply(efilter_args.mentions, efilter_args.passages, efilter_args.force_filter) :
          /\ efilter_result' = out.result
          /\ efilter_filtered' = out.filtered_passages
    /\ efilter_pc' = "filtered"
    /\ UNCHANGED efilter_args
    /\ EntityFilterOnly

EntityFilterNext == EntityDetectAndFilter \/ EntityFilterApply

EntityFilterRunInit == EntityFilterInit /\ DepotIdle /\ RankerIdle /\ GuideIdle /\ ConvIdle /\ OffersIdle /\ NormIdle /\ SparseIdle /\ IntentIdle /\ PassagesIdle /\ BatchIdle /\ SharedIdle /\ IndexIdle

SpecEntityFilter == EntityFilterRunInit /\ [][EntityFilterNext]_vars

(***************************************************************************)
(* Properties of the entity filter                                         *)
(***************************************************************************)
EntityFiltered == efilter_pc = "filtered"

SeveralDetected == Len(efilter_result.detected_entities) > 1

\* C18 as stated: a detection result with the hard filter on, results of
\* EntityFilter.apply included, has exactly one detected entity; with
\* several detected entities the hard filter is off and no passage is
\* removed.
C18_HardFilterOnlySingleEntity ==
    EntityFiltered =>
        /\ efilter_result.apply_hard_filter => Len(efilter_result.detected_entities) = 1
        /\ SeveralDetected => /\ ~efilter_result.apply_hard_filter
                              /\ efilter_filtered = efilter_args.passages

\* The same holds whenever force_filter is not passed.
HardFilterOnlySingleEntityUnforced ==
    EntityFiltered /\ ~efilter_args.force_filter =>
        /\ efilter_result.apply_hard_filter => Len(efilter_result.detected_entities) = 1
        /\ SeveralDetected => /\ ~efilter_result.apply_hard_filter
                              /\ efilter_filtered = efilter_args.passages

\* With force_filter the result of apply has the hard filter on exactly when
\* anything was detected.
ForcedFilterWheneverDetected ==
    EntityFiltered /\ efilter_args.force_filter =>
        (efilter_result.apply_hard_filter <=> efilter_result.detected_entities # << >>)

\* Several entities detected without force_filter: every passage is kept.
SeveralDetectedAllKept ==
    /\ EntityFiltered
    /\ ~efilter_args.force_filter
    /\ SeveralDetected
    /\ Len(efilter_filtered) = 3

\* Several entities detected with force_filter: passages are removed.
ForcedFilterRemoves ==
    /\ EntityFiltered
    /\ efilter_args.force_filter
    /\ SeveralDetected
    /\ efilter_result.apply_hard_filter
    /\ Len(efilter_filtered) < Len(efilter_args.passages)

(***************************************************************************)
(* Run-to-run determinism of the conventions search                        *)
(***************************************************************************)
\* What a search of the same query over the same pipeline can return,
\* one outcome per listing of the detected entities.
OtherRuns ==
    RetrievalPipeline_search(conv_config, conv_passages, conv_dense,
                             conv_cross_encoder, conv_query)

BoostEntity ==
    IF conv_entity_result.detected_entities # << >>
    THEN conv_entity_result.detected_entities[1] ELSE None

\* C19 as stated: the result of a search (intent, entity used for the boost
\* or penalty, scores and ranking) is the same on every run over the same
\* index, whatever order the detected entities are listed in.
C19_SameResultEveryRun ==
    ConvReturned =>
        \A run \in OtherRuns :
            /\ run.result.intent = conv_result.intent
            /\ run.entity_filter = BoostEntity
            /\ run.result.top_passages = conv_result.top_passages
            /\ run.result.top_documents = conv_result.top_documents

\* With at most one entity mentioned there is one possible result.
SameResultForOneEntity ==
    ConvReturned /\ Cardinality(conv_query.mentions \cap ENTITY_CODES) <= 1 =>
        \A run \in OtherRuns : run.result = conv_result

\* Two entities mentioned, and another run ranks another document first.
RankingDependsOnListing ==
    /\ ConvReturned
    /\ conv_result.top_documents # << >>
    /\ \E run \in OtherRuns :
          /\ run.result.top_documents # << >>
          /\ run.result.top_documents[1].doc_id # conv_result.top_documents[1].doc_id

\* Two entities mentioned, and another run scores the passages differently.
ScoresDependOnListing ==
    /\ ConvReturned
    /\ \E run \in OtherRuns : run.result.top_passages # conv_result.top_passages

(***************************************************************************)
(* Conventions: the passage generator (passage_generator.py).              *)
(* A text is the sequence of the pieces its f-string concatenates; an id   *)
(* is the digest of the content handed to md5.                             *)
(***************************************************************************)
MaxOffers == 2

\* The names of PassageGenerator.ENTITY_CODES, by code, in dict order.
EntityNameOrder == << "P", "V", "F", "A", "N", "O", "I", "AD", "AC", "AY" >>

\* The establishments explored: the codes whose mapped name is a substring
\* of the establishment (lower-cased), and its last word.
Establishments ==
    { [ name |-> "L'établissement A", names_in |-> {"A"}, last_word |-> "a" ],
      [ name |-> "L'établissement AD", names_in |-> {"A", "AD"}, last_word |-> "ad" ],
      [ name |-> "Mutuelle unk", names_in |-> {}, last_word |-> "unk" ] }

\* _get_entity_code: the first mapped name found in the establishment, else
\* its last word in upper case.
get_entity_code(establishment) ==
    IF establishment.names_in # {}
    THEN EntityNameOrder[SetMin({ i \in DOMAIN EntityNameOrder : EntityNameOrder[i] \in establishment.names_in })]
    ELSE upper(establishment.last_word)

\* The digest of md5 taken of f"{doc_id}_{passage_type}_{index}".
md5_12(content) == [ md5 |-> content ]

\* A generator that numbers passages from the count of those generated so far.
generate_id_running(doc_id, passage_type, index) ==
    md5_12(<< doc_id, "_", passage_type, "_", index + Len(pgen_first) >>)

\* _generate_id
generate_id(doc_id, passage_type, index) ==
    md5_12(<< doc_id, "_", passage_type, "_", index >>)

\* The SIGNATURE_TOKENS keywords found in the texts explored, in the order
\* the loops of _extract_signature_tokens append them.
KeywordsIn(text) ==
    CASE text = "personnel actif et cadres" -> << "cadres", "personnel actif" >>
      [] text = "retraités et ayants droit" -> << "retraités", "ayants droit" >>
      [] text = "Cadres supérieurs" -> << "cadres supérieurs", "cadres" >>
      [] text = "Retraités" -> << "retraités" >>
      [] OTHER -> << >>

\* normalizer.normalize_beneficiary on the texts explored
normalize_beneficiary(text) ==
    CASE text = "retraités et ayants droit" -> "retraites"
      [] text = "Cadres supérieurs" -> "cadres_superieurs"
      [] text = "Retraités" -> "retraites"
      [] text = "Tous" -> "tous"
      [] OTHER -> "autre"

RECURSIVE Dedupe(_)
Dedupe(seq) ==
    IF seq = << >> THEN << >>
    ELSE LET rest == Dedupe(SubSeq(seq, 1, Len(seq) - 1))
         IN  IF seq[Len(seq)] \in SeqToSet(rest) THEN rest ELSE Append(rest, seq[Len(seq)])

Reversed(seq) == [ i \in DOMAIN seq |-> seq[Len(seq) + 1 - i] ]

\* list(set(tokens)): the distinct tokens in an order that follows the
\* string hashes of the process (hash_seed), here one order or its reverse.
ListOfSet(tokens, hash_seed) ==
    IF hash_seed = 1 THEN Dedupe(tokens) ELSE Reversed(Dedupe(tokens))

\* _extract_signature_tokens
extract_signature_tokens(text, beneficiary, hash_seed) ==
    ListOfSet(KeywordsIn(text) \o (IF beneficiary # None THEN << beneficiary >> ELSE << >>), hash_seed)

NewPassage(id, doc_id, entity_code, passage_type, text, signature_tokens) ==
    [ id |-> id, doc_id |-> doc_id, entity_code |-> entity_code, passage_type |-> passage_type, text |-> text, signature_tokens |-> signature_tokens ]

generate_general_passages(doc, doc_id, entity_code, hash_seed) ==
    (IF doc.purpose # None
     THEN << NewPassage(generate_id(doc_id, "general", 0), doc_id, entity_code, "GENERAL",
                        << "[Etab=", entity_code, "][Type=General] ", doc.purpose >>,
                        extract_signature_tokens(doc.purpose, None, hash_seed)) >>
     ELSE << >>)
    \o
    (IF doc.beneficiaries # None
     THEN << NewPassage(generate_id(doc_id, "beneficiary", 0), doc_id, entity_code, "BENEFICIARY",
                        << "[Etab=", entity_code, "][Type=Beneficiary] Bénéficiaires: ", doc.beneficiaries >>,
                        extract_signature_tokens(doc.beneficiaries, normalize_beneficiary(doc.beneficiaries), hash_seed)) >>
     ELSE << >>)

\* offer_type.upper(), then FIBRE / VDSL / ADSL when it contains one of them
normalized_offer_type(offer_type) ==
    CASE offer_type = "Fibre optique" -> "FIBRE"
      [] offer_type = "adsl" -> "ADSL"
      [] OTHER -> upper(offer_type)

generate_internet_offer_passages(doc, doc_id, entity_code, hash_seed) ==
    [ i \in DOMAIN doc.internet_offers_table |->
        LET offer == doc.internet_offers_table[i]
            beneficiary == normalize_beneficiary(offer.category_segment)
            text == << "[Etab=", entity_code, "][Type=Offer][Benef=", beneficiary, "] ",
                       "Idoom ", normalized_offer_type(offer.offer_type), " ", offer.speed,
                       " à ", offer.price >>
                    \o (IF offer.benefits # "" THEN << " (", offer.benefits, ")" >> ELSE << >>)
        IN  NewPassage(generate_id(doc_id, "internet_offer", i - 1), doc_id, entity_code, "OFFER", text,
                       extract_signature_tokens(offer.category_segment, beneficiary, hash_seed)) ]

generate_telephony_passages(doc, doc_id, entity_code) ==
    [ i \in DOMAIN doc.telephony_offers_table |->
        LET offer == doc.telephony_offers_table[i]
            text == << "[Etab=", entity_code, "][Type=Telephony] ", offer.offer, ": ", offer.price >>
                    \o (IF offer.benefits # "" THEN << " - ", offer.benefits >> ELSE << >>)
        IN  NewPassage(generate_id(doc_id, "telephony", i - 1), doc_id, entity_code, "TELEPHONY", text, << >>) ]

\* "ONT" / "ÉQUIPEMENT" / "MODEM" in table_name.upper()
IsEquipmentTable(table_name) == table_name \in {"Tarifs ONT", "Modem"}

RECURSIVE JoinRow(_)
\* ", ".join(f"{k}: {v}" for k, v in row.items() if v)
JoinRow(row) ==
    IF row = << >> THEN << >>
    ELSE LET rest == JoinRow(Tail(row))
         IN  IF Head(row)[2] = "" THEN rest
             ELSE << Head(row)[1], ": ", Head(row)[2] >>
                  \o (IF rest = << >> THEN << >> ELSE << ", " >> \o rest)

RowField(row, key) ==
    LET at == { i \in DOMAIN row : row[i][1] = key }
    IN  IF at = {} THEN "" ELSE row[SetMin(at)][2]

RECURSIVE generate_equipment_tables(_, _, _, _, _)
generate_equipment_tables(tables, table_idx, doc_id, entity_code, hash_seed) ==
    IF tables = << >> THEN << >>
    ELSE LET table == Head(tables)
             rows == [ i \in DOMAIN table.data |->
                        LET row == table.data[i]
                        IN  IF IsEquipmentTable(table.table_name)
                            THEN LET category == RowField(row, "Catégorie")
                                     tarif == RowField(row, "Tarif")
                                 IN  NewPassage(generate_id(doc_id, << "equipment_", table_idx >>, i - 1),
                                                doc_id, entity_code, "EQUIPMENT",
                                                << "[Etab=", entity_code, "][Type=Equipment] ",
                                                   table.table_name, ": ", category, " - ", tarif >>,
                                                extract_signature_tokens(category, normalize_beneficiary(category), hash_seed))
                            ELSE NewPassage(generate_id(doc_id, << "other_", table_idx >>, i - 1),
                                            doc_id, entity_code, "OTHER",
                                            << "[Etab=", entity_code, "][Type=Other] ", table.table_name, ": " >>
                                            \o JoinRow(row),
                                            << >>) ]
         IN  rows \o generate_equipment_tables(Tail(tables), table_idx + 1, doc_id, entity_code, hash_seed)

generate_equipment_passages(doc, doc_id, entity_code, hash_seed) ==
    generate_equipment_tables(doc.other_tables, 0, doc_id, entity_code, hash_seed)

RECURSIVE JoinWith(_, _)
\* sep.join(items)
JoinWith(items, sep) ==
    IF items = << >> THEN << >>
    ELSE IF Len(items) = 1 THEN << items[1] >>
    ELSE << items[1], sep >> \o JoinWith(Tail(items), sep)

generate_document_passages(doc, doc_id, entity_code) ==
    (IF doc.required_documents_new # << >>
     THEN << NewPassage(generate_id(doc_id, "docs_new", 0), doc_id, entity_code, "DOCUMENTS",
                        << "[Etab=", entity_code, "][Type=Documents][Action=New] Documents requis nouvelle souscription: " >>
                        \o JoinWith(doc.required_documents_new, "; "),
                        << >>) >>
          \o [ i \in DOMAIN doc.required_documents_new |->
                 NewPassage(generate_id(doc_id, "doc_item_new", i - 1), doc_id, entity_code, "DOCUMENTS",
                            << "[Etab=", entity_code, "][Type=Documents] Document requis: ",
                               doc.required_documents_new[i] >>,
                            << >>) ]
     ELSE << >>)
    \o
    (IF doc.required_documents_switch # << >>
     THEN << NewPassage(generate_id(doc_id, "docs_switch", 0), doc_id, entity_code, "DOCUMENTS",
                        << "[Etab=", entity_code, "][Type=Documents][Action=Switch] Documents requis basculement: " >>
                        \o JoinWith(doc.required_documents_switch, "; "),
                        << >>) >>
     ELSE << >>)

generate_note_passages(doc, doc_id, entity_code, hash_seed) ==
    [ i \in DOMAIN doc.notes |->
        NewPassage(generate_id(doc_id, "note", i - 1), doc_id, entity_code, "NOTE",
                   << "[Etab=", entity_code, "][Type=Note] ", doc.notes[i] >>,
                   extract_signature_tokens(doc.notes[i], None, hash_seed)) ]

\* PassageGenerator.generate_from_document, in a process of the given hash seed
generate_from_document(doc, hash_seed) ==
    LET doc_id == IF doc.filename # None THEN doc.filename ELSE "unknown"
        entity_code == get_entity_code(doc.establishment)
    IN  generate_general_passages(doc, doc_id, entity_code, hash_seed)
        \o generate_internet_offer_passages(doc, doc_id, entity_code, hash_seed)
        \o generate_telephony_passages(doc, doc_id, entity_code)
        \o generate_equipment_passages(doc, doc_id, entity_code, hash_seed)
        \o generate_document_passages(doc, doc_id, entity_code)
        \o generate_note_passages(doc, doc_id, entity_code, hash_seed)

\* The rows of internet_offers_table explored.
InternetOffers ==
    { [ category_segment |-> "Cadres supérieurs", offer_type |-> "Fibre optique", speed |-> "100 Mbps", price |-> "1000 DA", benefits |-> "" ],
      [ category_segment |-> "Tous", offer_type |-> "adsl", speed |-> "20 Mbps", price |-> "Gratuit", benefits |-> "modem offert" ] }

TelephonyOffer == [ offer |-> "Idoom Fixe", price |-> "250 DA", benefits |-> "appels illimités" ]

OntTable == [ table_name |-> "Tarifs ONT", data |-> << << << "Catégorie", "Retraités" >>, << "Tarif", "Gratuit" >> >> >> ]

OtherTable == [ table_name |-> "Réductions", data |-> << << << "Zone", "Europe" >>, << "Remise", "" >>, << "Taux", "30%" >> >> >> ]

\* The convention documents explored.
PassageDocuments ==
    { [ filename |-> f, establishment |-> e, purpose |-> pu, beneficiaries |-> be,
        internet_offers_table |-> io, telephony_offers_table |-> te, other_tables |-> ot,
        required_documents_new |-> dn, required_documents_switch |-> ds, notes |-> no ] :
        f \in {"conv_1.json", None}, e \in Establishments,
        pu \in {None, "personnel actif et cadres"}, be \in {None, "retraités et ayants droit"},
        io \in UNION { [ 1..n -> InternetOffers ] : n \in 0..MaxOffers },
        te \in { << >>, << TelephonyOffer >> },
        ot \in { << >>, << OtherTable, OntTable >> },
        dn \in { << >>, << "CNI", "Attestation" >> },
        ds \in { << >>, << "CNI" >> },
        no \in { << >>, << "Retraités" >> } }

HashSeeds == {1, 2}

PassagesInit ==
    /\ pgen_pc = "loaded"
    /\ pgen_doc \in PassageDocuments
    /\ pgen_first = << >>
    /\ pgen_second = << >>

\* generate_from_document on the document
PassagesGenerate ==
    /\ pgen_pc = "loaded"
    /\ \E hash_seed \in HashSeeds : pgen_first' = generate_from_document(pgen_doc, hash_seed)
    /\ pgen_pc' = "generated"
    /\ UNCHANGED << pgen_doc, pgen_second >>
    /\ PassagesOnly

\* generate_from_document on the same, unchanged document, in the same or
\* in another process
PassagesRegenerate ==
    /\ pgen_pc = "generated"
    /\ \E hash_seed \in HashSeeds : pgen_second' = generate_from_document(pgen_doc, hash_seed)
    /\ pgen_pc' = "regenerated"
    /\ UNCHANGED << pgen_doc, pgen_first >>
    /\ PassagesOnly

PassagesNext == PassagesGenerate \/ PassagesRegenerate

PassagesRunInit == PassagesInit /\ DepotIdle /\ RankerIdle /\ GuideIdle /\ ConvIdle /\ OffersIdle /\ NormIdle /\ SparseIdle /\ IntentIdle /\ EntityFilterIdle /\ BatchIdle /\ SharedIdle /\ IndexIdle

SpecPassages == PassagesRunInit /\ [][PassagesNext]_vars

(***************************************************************************)
(* Properties of the passage generator                                     *)
(***************************************************************************)
Regenerated == pgen_pc = "regenerated"

ShorterNameWins ==
    /\ pgen_pc = "generated"
    /\ pgen_doc.establishment.name = "L'établissement AD"
    /\ pgen_first # << >>
    /\ pgen_first[1].entity_code = "A"

(***************************************************************************)
(* Conventions: PassageGenerator.generate_all_passages over a batch of     *)
(* documents, some of them with missing or malformed fields.               *)
(***************************************************************************)
MaxBatch == 2

\* JSON values that are not strings: null and a number.
NonStrings == { None, "int:1000" }

\* _generate_internet_offer_passages raises AttributeError on an offer whose
\* offer_type is not a string (.upper(), l.189) or whose price is not one
\* (parse_price's .lower(), or price.lower() l.197 for a falsy value).
internet_offer_raises(offer) == offer.offer_type \in NonStrings \/ offer.price \in NonStrings

generate_from_document_raises(doc) ==
    \E i \in DOMAIN doc.internet_offers_table : internet_offer_raises(doc.internet_offers_table[i])

RECURSIVE extend_all(_, _)
\* all_passages.extend(self.generate_from_document(doc)) for doc in documents
extend_all(documents, hash_seed) ==
    IF documents = << >> THEN << >>
    ELSE generate_from_document(Head(documents), hash_seed) \o extend_all(Tail(documents), hash_seed)

\* generate_all_passages: an exception of generate_from_document is not
\* caught and leaves the loop.
generate_all_passages(documents, hash_seed) ==
    IF \E i \in DOMAIN documents : generate_from_document_raises(documents[i])
    THEN [ raised |-> TRUE, passages |-> << >> ]
    ELSE [ raised |-> FALSE, passages |-> extend_all(documents, hash_seed) ]

BatchDoc(filename, establishment, purpose, offers, notes) ==
    [ filename |-> filename, establishment |-> establishment, purpose |-> purpose, beneficiaries |-> None, internet_offers_table |-> offers, telephony_offers_table |-> << >>, other_tables |-> << >>, required_documents_new |-> << >>, required_documents_switch |-> << >>, notes |-> notes ]

EstablishmentA == CHOOSE e \in Establishments : e.name = "L'établissement A"

EstablishmentUnk == CHOOSE e \in Establishments : e.name = "Mutuelle unk"

GoodOffer == CHOOSE o \in InternetOffers : o.price = "1000 DA"

\* The documents of the batches explored: well-formed ones, two without a
\* filename, one without any table or text, and two whose offer has a price
\* that is null or a number.
BatchDocuments ==
    { BatchDoc("conv_1.json", EstablishmentA, "personnel actif et cadres", << GoodOffer >>, << "Retraités" >>),
      BatchDoc("conv_2.json", EstablishmentUnk, None, << GoodOffer, GoodOffer >>, << >>),
      BatchDoc(None, EstablishmentA, "personnel actif et cadres", << >>, << >>),
      BatchDoc(None, EstablishmentUnk, "personnel actif et cadres", << GoodOffer >>, << >>),
      BatchDoc("conv_3.json", EstablishmentA, None, << >>, << >>),
      BatchDoc("conv_4.json", EstablishmentA, "personnel actif et cadres", << [ GoodOffer EXCEPT !.price = None ] >>, << >>),
      BatchDoc("conv_5.json", EstablishmentUnk, None, << GoodOffer, [ GoodOffer EXCEPT !.price = "int:1000" ] >>, << "Retraités" >>) }

\* Batches list each document once.
Batches ==
    { b \in UNION { [ 1..n -> BatchDocuments ] : n \in 0..MaxBatch } :
        \A i, j \in DOMAIN b : i # j => b[i] # b[j] }

BatchInit ==
    /\ batch_pc = "loaded"
    /\ batch_documents \in Batches
    /\ batch_passages = << >>

\* PassageGenerator.generate_all_passages
BatchGenerateAll ==
    /\ batch_pc = "loaded"
    /\ \E hash_seed \in HashSeeds :
       \E out \in { generate_all_passages(batch_documents, hash_seed) } :
          /\ batch_pc' = IF out.raised THEN "raised" ELSE "generated"
          /\ batch_passages' = IF out.raised THEN batch_passages ELSE out.passages
    /\ UNCHANGED batch_documents
    /\ BatchOnly

\* PassageGenerator.save_passages after a generation
BatchSave ==
    /\ batch_pc = "generated"
    /\ batch_pc' = "saved"
    /\ UNCHANGED << batch_documents, batch_passages >>
    /\ BatchOnly

BatchNext == BatchGenerateAll \/ BatchSave

BatchRunInit == BatchInit /\ DepotIdle /\ RankerIdle /\ GuideIdle /\ ConvIdle /\ OffersIdle /\ NormIdle /\ SparseIdle /\ IntentIdle /\ EntityFilterIdle /\ PassagesIdle /\ SharedIdle /\ IndexIdle

SpecBatch == BatchRunInit /\ [][BatchNext]_vars

(***************************************************************************)
(* Properties of the batch generation                                      *)
(***************************************************************************)
BatchEnded == batch_pc \in {"generated", "raised", "saved"}

DocIdOf(doc) == IF doc.filename # None THEN doc.filename ELSE "unknown"

PassagesOfDocId(doc_id) ==
    LET OfThatDoc(passage) == passage.doc_id = doc_id
    IN  SelectSeq(batch_passages, OfThatDoc)

\* C21 as stated: a document with malformed or missing fields yields partial
\* or zero passages and never aborts the generation for the other documents
\* of the batch: the batch ends without an exception and holds the passages
\* of every well-formed document.
C21_MalformedNeverAborts ==
    BatchEnded =>
        /\ batch_pc # "raised"
        /\ \A i \in DOMAIN batch_documents :
              ~generate_from_document_raises(batch_documents[i])
                  /\ batch_documents[i].filename # None =>
                  \E hash_seed \in HashSeeds :
                      PassagesOfDocId(batch_documents[i].filename)
                          = generate_from_document(batch_documents[i], hash_seed)

\* A batch whose offers all have string fields is generated whole, a
\* document with no table and no text adding nothing.
WellFormedBatchGenerated ==
    BatchEnded /\ (\A i \in DOMAIN batch_documents : ~generate_from_document_raises(batch_documents[i])) =>
        /\ batch_pc # "raised"
        /\ \E hash_seed \in HashSeeds : batch_passages = extend_all(batch_documents, hash_seed)

\* A batch raises exactly when one of its offers has a non-string field,
\* and then nothing is kept.
BatchRaisesOnNonString ==
    BatchEnded =>
        /\ batch_pc = "raised" <=> \E i \in DOMAIN batch_documents : generate_from_document_raises(batch_documents[i])
        /\ batch_pc = "raised" => batch_passages = << >>

\* A document without tables or text is followed by a well-formed one.
EmptyDocumentSkipped ==
    /\ batch_pc = "generated"
    /\ Len(batch_documents) = 2
    /\ batch_documents[1].filename = "conv_3.json"
    /\ batch_passages # << >>
    /\ PassagesOfDocId("conv_3.json") = << >>

\* C29 as stated: the passages generated for a batch have pairwise
\* distinct ids.
C29_DistinctIds ==
    batch_pc = "generated" =>
        \A i, j \in DOMAIN batch_passages : i # j => batch_passages[i].id # batch_passages[j].id

\* Ids are distinct when the documents have distinct doc ids.
DistinctIdsForDistinctDocIds ==
    batch_pc = "generated"
        /\ (\A i, j \in DOMAIN batch_documents : i # j => DocIdOf(batch_documents[i]) # DocIdOf(batch_documents[j])) =>
        \A i, j \in DOMAIN batch_passages : i # j => batch_passages[i].id # batch_passages[j].id

\* Two passages of different documents and different text under one id.
SharedIdAcrossDocuments ==
    /\ batch_pc = "generated"
    /\ \E i, j \in DOMAIN batch_passages :
          /\ batch_passages[i].id = batch_passages[j].id
          /\ batch_passages[i].entity_code # batch_passages[j].entity_code
          /\ batch_passages[i].text # batch_passages[j].text

(***************************************************************************)
(* Process-wide state written while queries are handled: sys.stdout in the *)
(* conventions retrieve (query_retrieve.py) and the lazily built _pipeline *)
(* of the guide (retrieval_function.py).  Callers are threads of one       *)
(* process; a thread switch can fall between any two statements.           *)
(***************************************************************************)
MaxCallers == 2

Callers == 1..MaxCallers

Console == [ stream |-> "console", of |-> 0 ]

\* io.StringIO(): a new object at every call
StringIO(t) == [ stream |-> "StringIO", of |-> t ]

NoPipeline == [ instance |-> 0 ]

\* QueryPipeline(): a new object at every construction
QueryPipeline(t) == [ instance |-> t ]

CallEnded(t) == shared_pc[t] \in {"returned", "raised"}

CallRunning(t) == shared_pc[t] # "idle" /\ ~CallEnded(t)

SharedInit ==
    /\ shared_pc = [ t \in Callers |-> "idle" ]
    /\ shared_kind \in [ Callers -> {"conventions", "guide"} ]
    /\ sys_stdout = Console
    /\ old_stdout = [ t \in Callers |-> Console ]
    /\ global_pipeline = NoPipeline
    /\ shared_built = {}
    /\ shared_overlapped = FALSE

\* A thread entering a call while another is inside one.
Overlaps(t) == shared_overlapped \/ \E u \in Callers \ {t} : CallRunning(u)

\* conventions retrieve, l.11: old_stdout = sys.stdout
RetrieveSave(t) ==
    /\ shared_kind[t] = "conventions"
    /\ shared_pc[t] = "idle"
    /\ old_stdout' = [ old_stdout EXCEPT ![t] = sys_stdout ]
    /\ shared_pc' = [ shared_pc EXCEPT ![t] = "saved" ]
    /\ shared_overlapped' = Overlaps(t)
    /\ UNCHANGED << shared_kind, sys_stdout, global_pipeline, shared_built >>
    /\ SharedOnly

\* conventions retrieve, l.12: sys.stdout = io.StringIO()
RetrieveRedirect(t) ==
    /\ shared_pc[t] = "saved"
    /\ sys_stdout' = StringIO(t)
    /\ shared_pc' = [ shared_pc EXCEPT ![t] = "redirected" ]
    /\ UNCHANGED << shared_kind, old_stdout, global_pipeline, shared_built, shared_overlapped >>
    /\ SharedOnly

\* conventions retrieve, l.14-19: the pipeline is built, initialized and
\* searched; an exception of initialize or search leaves the function.
RetrieveSearch(t) ==
    /\ shared_pc[t] = "redirected"
    /\ \E raises \in BOOLEAN :
          shared_pc' = [ shared_pc EXCEPT ![t] = IF raises THEN "raised" ELSE "searched" ]
    /\ UNCHANGED << shared_kind, sys_stdout, old_stdout, global_pipeline, shared_built, shared_overlapped >>
    /\ SharedOnly

\* conventions retrieve, l.22: sys.stdout = old_stdout
RetrieveRestore(t) ==
    /\ shared_pc[t] = "searched"
    /\ sys_stdout' = old_stdout[t]
    /\ shared_pc' = [ shared_pc EXCEPT ![t] = "restored" ]
    /\ UNCHANGED << shared_kind, old_stdout, global_pipeline, shared_built, shared_overlapped >>
    /\ SharedOnly

\* conventions retrieve, l.24-30: the document is looked up and returned
RetrieveReturn(t) ==
    /\ shared_pc[t] = "restored"
    /\ shared_pc' = [ shared_pc EXCEPT ![t] = "returned" ]
    /\ UNCHANGED << shared_kind, sys_stdout, old_stdout, global_pipeline, shared_built, shared_overlapped >>
    /\ SharedOnly

\* guide _get_pipeline, l.28: if _pipeline is None
GetPipelineCheck(t) ==
    /\ shared_kind[t] = "guide"
    /\ shared_pc[t] = "idle"
    /\ shared_pc' = [ shared_pc EXCEPT ![t] = IF global_pipeline = NoPipeline THEN "building" ELSE "got" ]
    /\ shared_overlapped' = Overlaps(t)
    /\ UNCHANGED << shared_kind, sys_stdout, old_stdout, global_pipeline, shared_built >>
    /\ SharedOnly

\* guide _get_pipeline, l.29-30: _pipeline = QueryPipeline(); connect()
GetPipelineBuild(t) ==
    /\ shared_pc[t] = "building"
    /\ global_pipeline' = QueryPipeline(t)
    /\ shared_built' = shared_built \cup { QueryPipeline(t) }
    /\ shared_pc' = [ shared_pc EXCEPT ![t] = "got" ]
    /\ UNCHANGED << shared_kind, sys_stdout, old_stdout, shared_overlapped >>
    /\ SharedOnly

\* guide retrieve after _get_pipeline: the search on the shared pipeline
GuideRetrieveReturn(t) ==
    /\ shared_pc[t] = "got"
    /\ shared_pc' = [ shared_pc EXCEPT ![t] = "returned" ]
    /\ UNCHANGED << shared_kind, sys_stdout, old_stdout, global_pipeline, shared_built, shared_overlapped >>
    /\ SharedOnly

SharedNext ==
    \E t \in Callers :
        \/ RetrieveSave(t)
        \/ RetrieveRedirect(t)
        \/ RetrieveSearch(t)
        \/ RetrieveRestore(t)
        \/ RetrieveReturn(t)
        \/ GetPipelineCheck(t)
        \/ GetPipelineBuild(t)
        \/ GuideRetrieveReturn(t)

SharedRunInit == SharedInit /\ DepotIdle /\ RankerIdle /\ GuideIdle /\ ConvIdle /\ OffersIdle /\ NormIdle /\ SparseIdle /\ IntentIdle /\ EntityFilterIdle /\ PassagesIdle /\ BatchIdle /\ IndexIdle

SpecShared == SharedRunInit /\ [][SharedNext]_vars

(***************************************************************************)
(* Properties of the process-wide state                                    *)
(***************************************************************************)
AllCallsEnded == \A t \in Callers : CallEnded(t)

NoCallRaised == \A t \in Callers : shared_pc[t] # "raised"

\* C22 as stated: handling a query writes no state shared with other
\* queries; the process-wide globals are left unchanged by every step.
C22_NoSharedWrites ==
    [][sys_stdout' = sys_stdout /\ global_pipeline' = global_pipeline]_vars

\* Calls that return and do not overlap leave the process as they found it,
\* but for the one guide pipeline built by the first guide query.
SequentialCallsLeaveState ==
    AllCallsEnded /\ NoCallRaised /\ ~shared_overlapped =>
        /\ sys_stdout = Console
        /\ Cardinality(shared_built) <= 1

\* Overlapping queries that all returned, with sys.stdout left redirected.
OverlapLeavesStdoutRedirected ==
    /\ AllCallsEnded
    /\ NoCallRaised
    /\ shared_overlapped
    /\ sys_stdout # Console

\* Overlapping first guide queries that each built a QueryPipeline.
OverlapBuildsTwoPipelines ==
    /\ AllCallsEnded
    /\ Cardinality(shared_built) = 2

\* C28 as stated: once the calls of the conventions retrieve have ended,
\* returned or raised, overlapping or not, sys.stdout is the stream object
\* it was before them.
C28_StdoutRestored ==
    AllCallsEnded => sys_stdout = Console

\* A single call that raised in initialize or search: sys.stdout is left on
\* the call's StringIO.
RaiseLeavesStdoutRedirected ==
    /\ AllCallsEnded
    /\ ~shared_overlapped
    /\ \E t \in Callers :
          /\ shared_pc[t] = "raised"
          /\ sys_stdout = StringIO(t)
          /\ \A u \in Callers \ {t} : shared_kind[u] = "guide"

(***************************************************************************)
(* BM25Index (hybrid_ranker.py) built, searched and built again.  A        *)
(* passage is the bag of the tokens of its search text over three terms;   *)
(* scores are in millionths.                                               *)
(***************************************************************************)
MaxIndexDocs == 3

\* BM25Index.__init__(k1=1.5, b=0.75): k1 in halves, b in quarters
k1_halves == 3
b_quarters == 3

IndexTerms == {"a", "b", "z"}

IndexDocs ==
    { [ a |-> 1, b |-> 0, z |-> 0 ],
      [ a |-> 1, b |-> 1, z |-> 0 ] }

IndexCorpora == UNION { [1..n -> IndexDocs] : n \in 1..MaxIndexDocs }

IndexQueries == { <<"a">>, <<"b">>, <<"a", "b">> }

\* The corpus with one more occurrence of term in the text of passage i.
AddOccurrence(corpus, i, term) ==
    [ corpus EXCEPT ![i] = [ @ EXCEPT ![term] = @ + 1 ] ]

\* The second corpus of a run: the first with one occurrence added, the
\* first unchanged, or a single other passage.
NewCorpora(corpus) ==
    { AddOccurrence(corpus, i, term) : i \in DOMAIN corpus, term \in {"a", "b"} }
        \cup { corpus, << [ a |-> 0, b |-> 1, z |-> 1 ] >> }

\* math.log(n) for the integers the idf formula needs, in millionths
LnMicro(n) ==
    << 0, 693147, 1098612, 1386294, 1609438, 1791759, 1945910, 2079442,
       2197225, 2302585, 2397895, 2484907, 2564949, 2639057, 2708050,
       2772589, 2833213, 2890372, 2944439, 2995732, 3044522, 3091042 >>[n]

\* BM25Index.__init__
BM25Index_init ==
    [ documents |-> << >>, total_docs |-> 0, doc_lengths |-> << >>,
      avg_doc_length |-> << 0, 1 >>,
      term_doc_freq |-> [ t \in IndexTerms |-> 0 ],
      inverted_index |-> [ t \in IndexTerms |-> << >> ] ]

\* len(tokens) of a passage
DocLength(doc) == doc.a + doc.b + doc.z

\* build_index, l.75-76
build_index_start(index, documents) ==
    [ index EXCEPT !.documents = documents, !.total_docs = Len(documents) ]

\* build_index, the loop body for the document at doc_id (0-based), l.79-105:
\* the length, the postings and the document frequencies are appended to
\* what the index already holds.
build_index_document(index, doc_id) ==
    LET doc == index.documents[doc_id + 1]
    IN  [ index EXCEPT
            !.doc_lengths = Append(@, DocLength(doc)),
            !.inverted_index = [ t \in IndexTerms |->
                IF doc[t] > 0 THEN Append(index.inverted_index[t], << doc_id, doc[t] >>)
                ELSE index.inverted_index[t] ],
            !.term_doc_freq = [ t \in IndexTerms |->
                IF doc[t] > 0 THEN index.term_doc_freq[t] + 1
                ELSE index.term_doc_freq[t] ] ]

\* build_index, l.107: sum(doc_lengths) / len(doc_lengths), kept as the pair
build_index_finish(index) ==
    [ index EXCEPT !.avg_doc_length =
        IF index.doc_lengths = << >> THEN << 1, 1 >>
        ELSE << SumSeq(index.doc_lengths), Len(index.doc_lengths) >> ]

RECURSIVE build_index_loop(_, _)
build_index_loop(index, doc_id) ==
    IF doc_id >= Len(index.documents) THEN index
    ELSE build_index_loop(build_index_document(index, doc_id), doc_id + 1)

\* BM25Index.build_index
BM25Index_build_index(index, documents) ==
    build_index_finish(build_index_loop(build_index_start(index, documents), 0))

\* BM25Index._idf: log((N - df + 0.5) / (df + 0.5) + 1) = log((2N + 2) / (2df + 1))
BM25Index_idf(index, term) ==
    LET df == index.term_doc_freq[term]
    IN  IF df = 0 THEN 0
        ELSE LnMicro(2 * index.total_docs + 2) - LnMicro(2 * df + 1)

\* A variant of the BM25 term without tf in the numerator.
bm25_term_no_tf(index, term, doc_id, tf) ==
    LET len == index.doc_lengths[doc_id + 1]
        total == index.avg_doc_length[1]
        count == index.avg_doc_length[2]
    IN  (BM25Index_idf(index, term) * 4 * (k1_halves + 2) * total)
            \div (8 * tf * total + k1_halves * ((4 - b_quarters) * total + b_quarters * len * count))

\* search, l.135-141: idf * tf * (k1 + 1) / (tf + k1 * (1 - b + b * dl / avgdl))
bm25_term(index, term, doc_id, tf) ==
    LET len == index.doc_lengths[doc_id + 1]
        total == index.avg_doc_length[1]
        count == index.avg_doc_length[2]
    IN  (BM25Index_idf(index, term) * 4 * tf * (k1_halves + 2) * total)
            \div (8 * tf * total + k1_halves * ((4 - b_quarters) * total + b_quarters * len * count))

\* The postings the loops of search visit, in order: (doc_id, tf, term)
RECURSIVE visited_postings(_, _)
visited_postings(index, query_tokens) ==
    IF query_tokens = << >> THEN << >>
    ELSE LET term == Head(query_tokens)
             list == index.inverted_index[term]
         IN  [ p \in DOMAIN list |-> << list[p][1], list[p][2], term >> ]
                 \o visited_postings(index, Tail(query_tokens))

\* BM25Index.search with the default top_k: the division by avg_doc_length
\* raises ZeroDivisionError when it is 0.
BM25Index_search_index(index, query_tokens) ==
    LET visited == visited_postings(index, query_tokens)
        ids == Dedupe([ p \in DOMAIN visited |-> visited[p][1] ])
        raw == [ d \in SeqToSet(ids) |->
                   SumSeq([ p \in DOMAIN visited |->
                              IF visited[p][1] = d
                              THEN bm25_term(index, visited[p][3], d, visited[p][2])
                              ELSE 0 ]) ]
    IN  IF visited # << >> /\ index.avg_doc_length[1] = 0
        THEN [ raised |-> TRUE, results |-> << >> ]
        ELSE [ raised |-> FALSE, results |-> BM25Index_search(raw, ids, 50) ]

IndexInit ==
    /\ idx_pc = "constructed"
    /\ idx_prior \in IndexCorpora
    /\ idx_new \in NewCorpora(idx_prior)
    /\ idx_query \in IndexQueries
    /\ idx_index = BM25Index_init
    /\ idx_pos = 0
    /\ idx_builds = 0
    /\ idx_inplace = FALSE
    /\ idx_phase = None
    /\ idx_prior_scores = << >>
    /\ idx_scores = << >>

\* build_index is entered: on the new index with the first passages, later
\* on the index in use with the second passages.
IndexBuildStart ==
    /\ idx_pc \in {"constructed", "built"}
    /\ idx_builds < 2
    /\ idx_index' = build_index_start(idx_index, IF idx_builds = 0 THEN idx_prior ELSE idx_new)
    /\ idx_pc' = "building"
    /\ idx_pos' = 0
    /\ idx_inplace' = (idx_pc = "built")
    /\ UNCHANGED << idx_prior, idx_new, idx_query, idx_builds, idx_phase, idx_prior_scores, idx_scores >>
    /\ IndexOnly

IndexBuildDocument ==
    /\ idx_pc = "building"
    /\ idx_pos < Len(idx_index.documents)
    /\ idx_index' = build_index_document(idx_index, idx_pos)
    /\ idx_pos' = idx_pos + 1
    /\ UNCHANGED << idx_pc, idx_prior, idx_new, idx_query, idx_builds, idx_inplace, idx_phase, idx_prior_scores, idx_scores >>
    /\ IndexOnly

IndexBuildFinish ==
    /\ idx_pc = "building"
    /\ idx_pos = Len(idx_index.documents)
    /\ idx_index' = build_index_finish(idx_index)
    /\ idx_pc' = "built"
    /\ idx_builds' = idx_builds + 1
    /\ UNCHANGED << idx_prior, idx_new, idx_query, idx_pos, idx_inplace, idx_phase, idx_prior_scores, idx_scores >>
    /\ IndexOnly

\* RetrievalPipeline.initialize again (pipeline.py l.151-155): the pipeline's
\* ranker is replaced by a new one, which is then built.
IndexConstructNew ==
    /\ idx_pc = "built"
    /\ idx_builds = 1
    /\ idx_index' = BM25Index_init
    /\ idx_pc' = "constructed"
    /\ UNCHANGED << idx_prior, idx_new, idx_query, idx_pos, idx_builds, idx_inplace, idx_phase, idx_prior_scores, idx_scores >>
    /\ IndexOnly

\* A search by a reader of the built index, at any moment from then on.
IndexSearch ==
    /\ idx_builds >= 1
    /\ \E out \in { BM25Index_search_index(idx_index, idx_query) } :
          /\ idx_scores' = out
          /\ idx_prior_scores' = IF idx_builds = 1 /\ idx_pc = "built" THEN out ELSE idx_prior_scores
    /\ idx_phase' = IF idx_pc = "built" THEN (IF idx_builds = 1 THEN "before" ELSE "after") ELSE "during"
    /\ UNCHANGED << idx_pc, idx_prior, idx_new, idx_query, idx_index, idx_pos, idx_builds, idx_inplace >>
    /\ IndexOnly

IndexNext ==
    \/ IndexBuildStart
    \/ IndexBuildDocument
    \/ IndexBuildFinish
    \/ IndexConstructNew
    \/ IndexSearch

IndexRunInit == IndexInit /\ DepotIdle /\ RankerIdle /\ GuideIdle /\ ConvIdle /\ OffersIdle /\ NormIdle /\ SparseIdle /\ IntentIdle /\ EntityFilterIdle /\ PassagesIdle /\ BatchIdle /\ SharedIdle

SpecIndex == IndexRunInit /\ [][IndexNext]_vars

(***************************************************************************)
(* Properties of the rebuilt index                                         *)
(***************************************************************************)
\* What a search returns on an index built once, from nothing, of a corpus.
SearchOfFresh(corpus) ==
    BM25Index_search_index(BM25Index_build_index(BM25Index_init, corpus), idx_query)

\* C23 as stated: a search that overlaps the second build, or follows it,
\* returns what the entire prior index or the entire index of the new
\* passages returns.
C23_PriorOrNewIndex ==
    idx_phase \in {"during", "after"} =>
        idx_scores \in { SearchOfFresh(idx_prior), SearchOfFresh(idx_new) }

\* A search that follows a build on a newly constructed BM25Index returns
\* what the index of the new passages returns.
FreshIndexAfterBuild ==
    (idx_phase = "after" /\ ~idx_inplace /\ idx_pc = "built") =>
        idx_scores = SearchOfFresh(idx_new)

\* The first build gives the index of the first passages.
FirstBuildIsWhole ==
    (idx_builds = 1 /\ idx_pc = "built") =>
        idx_index = BM25Index_build_index(BM25Index_init, idx_prior)

\* A search after a completed second build_index on the same BM25Index that
\* returns neither the prior nor the new index's result.
MergedIndexAfterRebuild ==
    /\ idx_phase = "after"
    /\ idx_inplace
    /\ idx_pc = "built"
    /\ ~idx_scores.raised
    /\ idx_scores \notin { SearchOfFresh(idx_prior), SearchOfFresh(idx_new) }
    /\ Len(idx_index.doc_lengths) = Len(idx_prior) + Len(idx_new)

\* A search during the build of a newly constructed index that raises.
SearchRaisesDuringBuild ==
    /\ idx_phase = "during"
    /\ ~idx_inplace
    /\ idx_scores.raised

\* The score of a passage in a search result, 0 when it is not in it.
ScoreIn(out, doc_id) ==
    LET at == { p \in DOMAIN out.results : out.results[p].id = doc_id }
    IN  IF at = {} THEN 0 ELSE out.results[CHOOSE p \in at : TRUE].score

\* The passages and terms by which the second corpus is the first with one
\* more occurrence of a query term.
AddedOccurrences ==
    { << i, term >> \in (DOMAIN idx_prior) \X SeqToSet(idx_query) :
        idx_new = AddOccurrence(idx_prior, i, term) }

\* Both corpora searched, each on an index of its own.
BothSearched ==
    /\ idx_phase = "after"
    /\ ~idx_inplace
    /\ idx_pc = "built"
    /\ idx_prior_scores # << >>

\* C24 as stated: one more occurrence of a query term in a passage never
\* lowers the passage's BM25 score, for single-term and multi-term queries.
C24_MonotoneAllQueries ==
    BothSearched =>
        \A added \in AddedOccurrences :
            ScoreIn(idx_scores, added[1] - 1) >= ScoreIn(idx_prior_scores, added[1] - 1)

\* C24, amended: one more occurrence of the query's term in a passage never
\* lowers the passage's BM25 score for a query of that single term.
C24_MonotoneSingleTerm ==
    (BothSearched /\ Len(idx_query) = 1) =>
        \A added \in AddedOccurrences :
            ScoreIn(idx_scores, added[1] - 1) >= ScoreIn(idx_prior_scores, added[1] - 1)

\* A single-term query whose term was added to a passage that held it, with
\* a strictly higher score afterwards.
C24_Witness ==
    /\ BothSearched
    /\ Len(idx_query) = 1
    /\ \E added \in AddedOccurrences :
          /\ idx_prior[added[1]][added[2]] > 0
          /\ ScoreIn(idx_scores, added[1] - 1) > ScoreIn(idx_prior_scores, added[1] - 1)

\* A two-term query: the added occurrence of one term lengthens the passage
\* and lowers its score.
LongerPassageScoresLower ==
    /\ BothSearched
    /\ Len(idx_query) = 2
    /\ \E added \in AddedOccurrences :
          ScoreIn(idx_scores, added[1] - 1) < ScoreIn(idx_prior_scores, added[1] - 1)

(***************************************************************************)
(* Properties of the links call_pipeline reports (SpecDepot)               *)
(***************************************************************************)
\* The reported document carries the links of its own metadata.
LinksOfDocument(reported) ==
    /\ reported.doc_french_link = reported.jason_snippet.doc_french_link
    /\ reported.doc_arabic_link = reported.jason_snippet.doc_arabic_link

\* C25 as stated: whichever layer wins, the French and Arabic links that
\* call_pipeline reports are the document's doc_french_link and
\* doc_arabic_link respectively.
C25_LinksWhicheverLayer ==
    \A p \in DOMAIN depot_output : LinksOfDocument(depot_output[p])

\* The same for a document found by Layer 1 alone.
LinksOfLayer1Document ==
    \A p \in DOMAIN depot_output :
        depot_output[p].layer = LayerRule => LinksOfDocument(depot_output[p])

\* The tuple of Layer 1 has one field order, the tuples of Layers 2 and 3
\* another, with the two links exchanged.
LinksExchanged(reported) ==
    /\ reported.doc_french_link = reported.jason_snippet.doc_arabic_link
    /\ reported.doc_arabic_link = reported.jason_snippet.doc_french_link
    /\ reported.doc_french_link # reported.doc_arabic_link

LinksExchangedByLayer2 ==
    \E p \in DOMAIN depot_output :
        depot_output[p].layer = LayerBM25 /\ LinksExchanged(depot_output[p])

LinksExchangedByLayer3 ==
    \E p \in DOMAIN depot_output :
        depot_output[p].layer = LayerDense /\ LinksExchanged(depot_output[p])

(***************************************************************************)
(* Properties of the hard filter and the retrieval pool (SpecConv)         *)
(***************************************************************************)
\* The hard filter was applied to the retrieved pool of the last search.
HardFilterActive ==
    /\ ConvReturned
    /\ conv_entity_result.apply_hard_filter
    /\ conv_entity_result.detected_entities # << >>

\* The passages of the filter's entity that match the query: a query term
\* in them (a BM25 score), or a similarity from the dense index.
MatchingOfEntity ==
    { i \in DOMAIN conv_passages :
        /\ EntityMatches(conv_passages[i].entity_code, conv_entity_result.detected_entities[1])
        /\ (conv_query.bm25_raw[i] > 0 \/ conv_dense = "built") }

\* C26 as stated: with the hard filter active, the candidate set after the
\* filter is empty only if no passage of the entity matches the query.
C26_EmptyOnlyWithoutMatch ==
    (HardFilterActive /\ conv_filtered = << >>) => MatchingOfEntity = {}

\* The same when the retrieval pool holds the whole corpus.
EmptyOnlyWithoutMatchInWholePool ==
    (HardFilterActive /\ conv_filtered = << >>
        /\ conv_config.top_k_retrieval >= Len(conv_passages)) => MatchingOfEntity = {}

\* A matching passage of the entity cut from the pool by passages of other
\* entities that score higher, and nothing left after the filter.
MatchingPassageCutBeforeFilter ==
    /\ HardFilterActive
    /\ conv_filtered = << >>
    /\ MatchingOfEntity # {}
    /\ Len(conv_retrieved) = conv_config.top_k_retrieval
    /\ \A p \in DOMAIN conv_retrieved :
          ~EntityMatches(conv_retrieved[p].passage.entity_code,
                         conv_entity_result.detected_entities[1])

(***************************************************************************)
(* Properties of the numeric boost for several query prices (SpecRanker)   *)
(***************************************************************************)
\* The boost of the passage without its price: the speed and free-offer
\* factors alone (x1.0 for the price), in eighths.
BoostWithoutPrice(r) ==
    apply_numeric_boost([ r.passage EXCEPT !.price_value = NoValue ],
                        ranker_query.prices, ranker_query.speeds)

ExactPriceMatch(r) ==
    /\ r.passage.price_value # NoValue
    /\ \E k \in DOMAIN ranker_query.prices :
          ranker_query.prices[k] = r.passage.price_value[1]

\* The boost is what the query prices in the opposite order give, and an
\* exact match of any query price earns the factor 2.0.
OrderIndependentBoost(r) ==
    /\ r.numeric_boost = apply_numeric_boost(r.passage, Reversed(ranker_query.prices),
                                             ranker_query.speeds)
    /\ ExactPriceMatch(r) => r.numeric_boost = 2 * BoostWithoutPrice(r)

\* C27 as stated: with several prices in the query the numeric boost of a
\* passage does not depend on their order, and a passage whose price equals
\* any of them receives the exact-match factor 2.0.
C27_BoostIndependentOfPriceOrder ==
    ranker_pc = "searched" =>
        \A i \in DOMAIN ranker_results : OrderIndependentBoost(ranker_results[i])

\* The same for queries with at most one price.
BoostOfOnePrice ==
    (ranker_pc = "searched" /\ Len(ranker_query.prices) <= 1) =>
        \A i \in DOMAIN ranker_results : OrderIndependentBoost(ranker_results[i])

\* A passage whose price equals the second query price and is within 100 DA
\* of the first: it receives 1.5, and 2.0 with the prices in the other order.
ExactMatchBoostedAsNear ==
    /\ ranker_pc = "searched"
    /\ ranker_query.prices = <<1100, 1000>>
    /\ \E i \in DOMAIN ranker_results :
          LET r == ranker_results[i]
          IN  /\ r.passage.price_value = <<1000>>
              /\ 2 * r.numeric_boost = 3 * BoostWithoutPrice(r)
              /\ apply_numeric_boost(r.passage, <<1000, 1100>>, ranker_query.speeds)
                     = 2 * BoostWithoutPrice(r)

(***************************************************************************)
(* Properties of the 0.7 penalty of search_fused (SpecOffers)              *)
(***************************************************************************)
\* The last search ran the rule filter and the fusion on a non-empty query.
Fused == offers_pc \in {"returned", "raised"} /\ offers_rule_raw # << >> /\ offers_candidates # << >>

FusedIndices == { offers_candidates[p].doc_index : p \in DOMAIN offers_candidates }

RouterScoredNone == \A d \in OffersDocs : offers_rule_raw[d] = 0

\* The fused score of a ranked document before the penalty.
Unpenalised(d) ==
    fused_norm(offers_bm25_raw[d], { offers_bm25_raw[e] : e \in FusedIndices })
        + (5 * fused_norm(offers_rule_raw[d], { offers_rule_raw[e] : e \in FusedIndices })) \div 4

\* The ranked document carries the 0.7 penalty.
Penalised(c) == c.score = (7 * Unpenalised(c.doc_index)) \div 10

\* C30 as stated: a document the router scored zero stays eligible
\* alongside the documents it scored, with its fused score multiplied by 0.7.
C30_ZeroScoredStaysEligible ==
    Fused =>
        \A d \in OffersDocs :
            offers_rule_raw[d] = 0 =>
                \E p \in DOMAIN offers_candidates :
                    /\ offers_candidates[p].doc_index = d
                    /\ Penalised(offers_candidates[p])

\* C30, amended: when the router scored a document, only the documents it
\* scored are ranked, none of them penalised; when it scored none, every
\* document is ranked and every fused score is multiplied by 0.7.  Either
\* way the list is in the order of the scores before the penalty.
C30_PenaltyUniform ==
    Fused =>
        /\ FusedIndices = IF RouterScoredNone THEN OffersDocs
                          ELSE { d \in OffersDocs : offers_rule_raw[d] > 0 }
        /\ \A p \in DOMAIN offers_candidates :
              IF RouterScoredNone THEN Penalised(offers_candidates[p])
              ELSE offers_candidates[p].score = Unpenalised(offers_candidates[p].doc_index)
        /\ \A p, q \in DOMAIN offers_candidates :
              p < q => Unpenalised(offers_candidates[p].doc_index)
                           >= Unpenalised(offers_candidates[q].doc_index)

\* A search whose router scored none: every document is ranked, with
\* penalised scores in descending order.
C30_Witness ==
    /\ Fused
    /\ RouterScoredNone
    /\ Len(offers_candidates) = 3
    /\ offers_candidates[1].score = (7 * Scale) \div 10
    /\ offers_candidates[1].score > offers_candidates[2].score
    /\ offers_candidates[2].score > offers_candidates[3].score

\* A search whose router scored one document and not the others: the others
\* are not ranked.
ZeroScoredDropped ==
    /\ Fused
    /\ ~RouterScoredNone
    /\ \E d \in OffersDocs : offers_rule_raw[d] = 0 /\ d \notin FusedIndices
    /\ \A p \in DOMAIN offers_candidates : offers_rule_raw[offers_candidates[p].doc_index] > 0

====
